---- MODULE Spec2Model ----
(***************************************************************************)
(* Model of the Redis Cloud provisioning workflow of rest-api/create-db.py *)
(* (module-level configuration, HTTP helpers, the two polling loops,       *)
(* identifier extraction, payload normalisation and main), of the sizing-  *)
(* sheet converters input/re_stats_json.py and csv_to_redis_tf.py, and of  *)
(* the temporary files of the HTTP front-end rest-api/app.py.              *)
(*                                                                         *)
(* JSON values are records tagged by their Python type so that values of   *)
(* different types can be compared: Absent is a missing key, None is null. *)
(* Time is counted in seconds of the polling clock; each GET takes between *)
(* 0 and MaxLatency seconds, and a sleep takes its poll interval.          *)
(***************************************************************************)
EXTENDS Integers, Sequences, FiniteSets, TLC

\* ---------------------------------------------------------------- bounds
MaxDbs == 3           \* longest "databases" list of the input
MaxPlan == 2          \* longest "creation_plan" list of the input
TimeoutBudget == 4    \* timeout_s of both polling loops (scaled down)
MaxLatency == 1       \* longest duration of one GET, in seconds

\* ------------------------------------------------------ program constants
TaskPollS == 3        \* poll_s of wait_for_task
SubPollS == 5         \* poll_s of wait_for_subscription_active
DefaultThroughput == 100

\* ----------------------------------------------------------- JSON values
Absent == [t |-> "absent", s |-> "", n |-> 0]
None == [t |-> "none", s |-> "", n |-> 0]
S(x) == [t |-> "str", s |-> x, n |-> 0]
I(k) == [t |-> "int", s |-> "", n |-> k]
B(b) == [t |-> "bool", s |-> "", n |-> IF b THEN 1 ELSE 0]
\* a number with one decimal digit, kept in tenths (2.4 is Num(24))
Num(tenths) == [t |-> "num", s |-> "", n |-> tenths]
\* a JSON list of strings, or a missing / null one
NoList == [t |-> "absent", items |-> <<>>]
NullList == [t |-> "none", items |-> <<>>]
L(items) == [t |-> "list", items |-> items]

\* Python truthiness of a value obtained with dict.get
Truthy(v) == \/ v.t = "str" /\ v.s # ""
             \/ v.t \in {"int", "bool"} /\ v.n # 0

\* Python's  a or b
PyOr(a, b) == IF Truthy(a) THEN a ELSE b

\* dict.get(key) : a missing key reads as None
PyGet(v) == IF v.t = "absent" THEN None ELSE v

\* str(x) for the strings and the small integers of the model
IntToStr(k) == CASE k = 0 -> "0"
                 [] k = 7 -> "7"
                 [] k = 9 -> "9"
                 [] OTHER -> "int"

Str(v) == IF v.t = "int" THEN IntToStr(v.n) ELSE v.s

\* str.lower() on the status tokens of the model
Lower(x) == CASE x = "ACTIVE" -> "active"
              [] x = "Done" -> "done"
              [] x = "FAILED" -> "failed"
              [] x = "Resource" -> "resource"
              [] x = "TRUE" -> "true"
              [] OTHER -> x

\* ------------------------------------------------------- HTTP helpers
\* a test that lets client errors through
HttpOk_Only5xx(r) == r.code < 500

\* requests' Response.ok as tested by post() and get()
HttpOk(r) == r.code < 400

\* http_error: the body is resp.json() when it parses, resp.text otherwise;
\* SystemExit carries the status code and that body
http_error(r, op) ==
    [kind |-> "TransportError", exit |-> 1, op |-> op, code |-> r.code, names |-> {},
     body |-> [form |-> IF r.json THEN "parsed" ELSE "text", content |-> r.text],
     detail |-> ""]

\* r.json() of a 2xx response whose body is not JSON raises
DecodeError(op) ==
    [kind |-> "DecodeError", exit |-> 1, op |-> op, code |-> 0, names |-> {},
     body |-> [form |-> "none", content |-> ""], detail |-> ""]

\* SystemExit(message) raised by the workflow itself
Fatal(kind, detail) ==
    [kind |-> kind, exit |-> 1, op |-> "", code |-> 0, names |-> {},
     body |-> [form |-> "none", content |-> ""], detail |-> detail]

NoError ==
    [kind |-> "none", exit |-> 0, op |-> "", code |-> 0, names |-> {},
     body |-> [form |-> "none", content |-> ""], detail |-> ""]

\* ---------------------------------------------------- polling helpers
SUB_ACTIVE == {"active", "activated", "running", "ready"}
\* a failure set that misses "error"
SUB_FAILED_NoError == {"failed"}
SUB_FAILED == {"error", "failed"}
\* a success set that misses "completed"
TASK_SUCCESS_NoCompleted == {"succeeded", "success", "done"}
TASK_SUCCESS == {"succeeded", "success", "completed", "done"}
TASK_FAILED == {"failed", "error", "aborted", "canceled", "cancelled", "processing-error"}

\* status = (sub.get("status") or sub.get("state") or "").lower()
SubStatus(sub) == Lower(PyOr(PyOr(PyGet(sub.status), PyGet(sub.state)), S("")).s)

\* status = (task.get("status") or "").lower()
TaskStatus(task) == Lower(PyOr(PyGet(task.status), S("")).s)

\* a loop that returns on every status outside the failure set
SubOutcome_AnyNonFailure(status, el) ==
    IF status \notin SUB_FAILED THEN "return" ELSE "failure"

\* one iteration of wait_for_subscription_active after the GET
SubOutcome(status, el) ==
    IF status \in SUB_ACTIVE THEN "return"
    ELSE IF status \in SUB_FAILED THEN "failure"
    ELSE IF el > TimeoutBudget THEN "timeout"
    ELSE "sleep"

\* a loop without the timeout test
TaskOutcome_NoTimeout(status, el) ==
    IF status \in TASK_SUCCESS THEN "return"
    ELSE IF status \in TASK_FAILED THEN "failure"
    ELSE "sleep"

\* a loop that tests the timeout before it looks at the status
TaskOutcome_TimeoutFirst(status, el) ==
    IF el > TimeoutBudget THEN "timeout"
    ELSE IF status \in TASK_SUCCESS THEN "return"
    ELSE IF status \in TASK_FAILED THEN "failure"
    ELSE "sleep"

\* one iteration of wait_for_task after the GET
TaskOutcome(status, el) ==
    IF status \in TASK_SUCCESS THEN "return"
    ELSE IF status \in TASK_FAILED THEN "failure"
    ELSE IF el > TimeoutBudget THEN "timeout"
    ELSE "sleep"

\* a message that looks at "details" first
TaskErrMsg_DetailsFirst(task) ==
    PyOr(PyOr(PyOr(PyGet(task.details), PyGet(task.errorMessage)), PyGet(task.message)),
         S("No additional error message provided."))

\* err_msg of wait_for_task
TaskErrMsg(task) ==
    PyOr(PyOr(PyOr(PyGet(task.errorMessage), PyGet(task.message)), PyGet(task.details)),
         S("No additional error message provided."))

\* ------------------------------------------- identifier extraction
\* a list that probes resourceId before the nested subscriptionId fields
KEYPATHS_ResourceFirst == << <<"resourceId">>,
                             <<"result", "subscriptionId">>,
                             <<"response", "subscriptionId">>,
                             <<"subscriptionId">>,
                             <<"result", "id">>,
                             <<"response", "id">> >>

KEYPATHS == << <<"result", "subscriptionId">>,
               <<"response", "subscriptionId">>,
               <<"subscriptionId">>,
               <<"resourceId">>,
               <<"result", "id">>,
               <<"response", "id">> >>

\* walk one key path; Absent when a step is not a dict or lacks the key
PathValue(task, kp) ==
    IF Len(kp) = 2
    THEN LET d == IF kp[1] = "result" THEN task.result ELSE task.response
         IN  IF ~d.isdict THEN Absent
             ELSE IF kp[2] = "subscriptionId" THEN d.subscriptionId ELSE d.id
    ELSE IF kp[1] = "subscriptionId" THEN task.subscriptionId ELSE task.resourceId

\* ok and isinstance(obj, (str, int))
PathMatches(task, kp) == PathValue(task, kp).t \in {"str", "int"}

\* re.search(r"/subscriptions/([^/]+)", href) on the href split at "/"
ReSearchSubscription(segs) ==
    LET hits == {k \in 2..(Len(segs) - 1) : segs[k] = "subscriptions" /\ segs[k + 1] # ""}
    IN  IF hits = {} THEN None
        ELSE S(segs[(CHOOSE k \in hits : \A m \in hits : k <= m) + 1])

\* the links fallback: first link with rel resource/subscription whose href matches
LinkRel(link) == Lower(PyOr(PyGet(link.rel), S("")).s)

\* a fallback that takes a link of any rel
LinkHit_AnyRel(link) ==
    /\ link.href # <<"">>
    /\ ReSearchSubscription(link.href).t = "str"

LinkHit(link) ==
    /\ LinkRel(link) \in {"resource", "subscription"}
    /\ link.href # <<"">>
    /\ ReSearchSubscription(link.href).t = "str"

ExtractFromLinks(links) ==
    LET hits == {k \in 1..Len(links) : LinkHit(links[k])}
    IN  IF hits = {} THEN None
        ELSE ReSearchSubscription(links[CHOOSE k \in hits : \A m \in hits : k <= m].href)

_extract_subscription_id_from_task(task) ==
    LET hits == {k \in 1..Len(KEYPATHS) : PathMatches(task, KEYPATHS[k])}
    IN  IF hits # {}
        THEN S(Str(PathValue(task, KEYPATHS[CHOOSE k \in hits : \A m \in hits : k <= m])))
        ELSE ExtractFromLinks(task.links)

\* ---------------------------------------------------- normalisation
Max(a, b) == IF a >= b THEN a ELSE b

\* a ceiling that rounds down
CeilTenths_Floor(n) == n \div 10

\* math.ceil of a number kept in tenths
CeilTenths(n) == -((-n) \div 10)

\* float(s) of the strings of the model, in tenths; -1 when float(s) raises
FloatOfStr(s) == CASE s = "2.1" -> 21
                   [] s = "7" -> 70
                   [] OTHER -> -1

\* _to_gb_int: float(x) raises for None and for a non-numeric string, then 1
_to_gb_int(x) ==
    IF x.t = "num" THEN Max(1, CeilTenths(x.n))
    ELSE IF x.t \in {"int", "bool"} THEN Max(1, CeilTenths(10 * x.n))
    ELSE IF x.t = "str" /\ FloatOfStr(x.s) >= 0 THEN Max(1, CeilTenths(FloatOfStr(x.s)))
    ELSE 1

\* a lookup that ignores the stored value
PyGetDefault_AlwaysDefault(v, default) == default

\* dict.get(key, default)
PyGetDefault(v, default) == IF v.t = "absent" THEN default ELSE v

\* int(x) of the throughput raises TypeError for None
IntRaises(v) == v.t \notin {"int", "bool"}

\* a normaliser that looks at the alias before "modules"
_normalize_db_from_input_AliasFirst(db) ==
    LET modules == IF db.modulexs.t # "absent" THEN db.modulexs
                   ELSE IF db.modules.t = "list" THEN db.modules ELSE L(<<>>)
        thr == PyGetDefault(db.throughput_measurement_value, I(DefaultThroughput))
    IN  [name |-> PyGetDefault(db.name, S("redis-db")),
         protocol |-> PyGetDefault(db.protocol, S("redis")),
         datasetSizeInGb |-> _to_gb_int(PyGetDefault(db.dataset_size_in_gb, I(1))),
         replication |-> Truthy(PyGetDefault(db.replication, B(FALSE))),
         throughputMeasurementBy |->
             PyGetDefault(db.throughput_measurement_by, S("operations-per-second")),
         throughputMeasurementValue |-> IF IntRaises(thr) THEN 0 ELSE thr.n,
         modules |-> modules,
         supportOSSClusterApi |-> Truthy(PyGetDefault(db.support_oss_cluster_api, B(FALSE))),
         raised |-> IntRaises(thr)]

_normalize_db_from_input(db) ==
    LET modules == IF db.modules.t = "list" THEN db.modules
                   ELSE IF db.modulexs.t = "absent" THEN L(<<>>) ELSE db.modulexs
        thr == PyGetDefault(db.throughput_measurement_value, I(DefaultThroughput))
    IN  [name |-> PyGetDefault(db.name, S("redis-db")),
         protocol |-> PyGetDefault(db.protocol, S("redis")),
         datasetSizeInGb |-> _to_gb_int(PyGetDefault(db.dataset_size_in_gb, I(1))),
         replication |-> Truthy(PyGetDefault(db.replication, B(FALSE))),
         throughputMeasurementBy |->
             PyGetDefault(db.throughput_measurement_by, S("operations-per-second")),
         throughputMeasurementValue |-> IF IntRaises(thr) THEN 0 ELSE thr.n,
         modules |-> modules,
         supportOSSClusterApi |-> Truthy(PyGetDefault(db.support_oss_cluster_api, B(FALSE))),
         raised |-> IntRaises(thr)]

\* names counted from 0
RedisDbName_FromZero(k) == CASE k = 1 -> "redis-db-0"
                             [] k = 2 -> "redis-db-1"
                             [] k = 3 -> "redis-db-2"
                             [] OTHER -> "redis-db-n"

RedisDbName(k) == CASE k = 1 -> "redis-db-1"
                    [] k = 2 -> "redis-db-2"
                    [] k = 3 -> "redis-db-3"
                    [] OTHER -> "redis-db-n"

\* the database synthesised from the k-th creation_plan entry
PlanDb(item, k) ==
    [name |-> S(RedisDbName(k)),
     protocol |-> Absent,
     dataset_size_in_gb |-> PyGetDefault(item.dataset_size_in_gb, I(1)),
     replication |-> PyGetDefault(item.replication, B(FALSE)),
     throughput_measurement_by |->
         PyGetDefault(item.throughput_measurement_by, S("operations-per-second")),
     throughput_measurement_value |->
         PyGetDefault(item.throughput_measurement_value, I(DefaultThroughput)),
     modules |-> L(<<>>),
     modulexs |-> NoList,
     support_oss_cluster_api |-> B(FALSE)]

\* spec.get("databases") or []
SpecDbsOrEmpty(spec) == IF spec.databases.t = "list" THEN spec.databases.items ELSE <<>>

\* (spec.get("subscription") or {}).get("creation_plan") or []
SpecPlan(spec) == IF spec.subscription.present THEN spec.subscription.creation_plan ELSE <<>>

\* a derivation without the creation_plan fallback
_dbs_from_payload_NoPlan(spec) ==
    [k \in 1..Len(SpecDbsOrEmpty(spec)) |-> _normalize_db_from_input(SpecDbsOrEmpty(spec)[k])]

_dbs_from_payload(spec) ==
    LET dbs == SpecDbsOrEmpty(spec)
        plan == SpecPlan(spec)
    IN  IF dbs # <<>>
        THEN [k \in 1..Len(dbs) |-> _normalize_db_from_input(dbs[k])]
        ELSE [k \in 1..Len(plan) |-> _normalize_db_from_input(PlanDb(plan[k], k))]

\* build_pro_subscription_payload raises SystemExit when no database is derivable
NoDatabases(spec) == _dbs_from_payload(spec) = <<>>

NormalizeRaises(dbs) == \E k \in 1..Len(dbs) : dbs[k].raised

\* -------------------------------------------------- inputs of the model
DbName(k) == CASE k = 1 -> "db1"
               [] k = 2 -> "db2"
               [] k = 3 -> "db3"
               [] k = 4 -> "db4"
               [] OTHER -> "dbn"

\* the k-th database of an input sheet
SampleDb(k) ==
    [name |-> S(DbName(k)),
     protocol |-> Absent,
     dataset_size_in_gb |-> IF k = 1 THEN Num(24) ELSE IF k = 2 THEN Num(4) ELSE Absent,
     replication |-> IF k = 1 THEN B(TRUE) ELSE Absent,
     throughput_measurement_by |-> Absent,
     throughput_measurement_value |-> IF k = 1 THEN I(5000) ELSE Absent,
     modules |-> IF k = 1 THEN L(<<"RedisJSON">>) ELSE NoList,
     modulexs |-> IF k = 2 THEN L(<<"RediSearch">>) ELSE NoList,
     support_oss_cluster_api |-> IF k = 3 THEN B(TRUE) ELSE Absent]

\* a database whose throughput is JSON null
BadDb == [SampleDb(1) EXCEPT !.throughput_measurement_value = None]

SamplePlan(k) ==
    [dataset_size_in_gb |-> Num(20),
     replication |-> B(k = 1),
     throughput_measurement_by |-> S("operations-per-second"),
     throughput_measurement_value |-> I(5000),
     quantity |-> 2]

DbLists == {[k \in 1..n |-> SampleDb(k)] : n \in 0..MaxDbs} \cup {<<BadDb>>}

\* a subscription block with a creation_plan of m entries
PlanOf(m) == [present |-> TRUE, creation_plan |-> [k \in 1..m |-> SamplePlan(k)]]

\* the inputs: every databases value with no subscription block and with a
\* creation_plan of at most one entry; the longer plans with the databases
\* values that make the workflow use the plan
SpecInputs ==
    [databases : {[t |-> "absent", items |-> <<>>], [t |-> "none", items |-> <<>>]}
                 \cup {[t |-> "list", items |-> l] : l \in DbLists},
     subscription : {[present |-> FALSE, creation_plan |-> <<>>], PlanOf(0), PlanOf(1)}]
    \cup
    [databases : {[t |-> "absent", items |-> <<>>], [t |-> "none", items |-> <<>>],
                  [t |-> "list", items |-> <<>>]},
     subscription : {PlanOf(m) : m \in 2..MaxPlan}]

NoSpec == [databases |-> [t |-> "absent", items |-> <<>>],
           subscription |-> [present |-> FALSE, creation_plan |-> <<>>]]

\* HTTP envelopes: status code, whether the body parses as JSON, the body text
OkEnvelope == [code |-> 200, json |-> TRUE, text |-> "ok"]
FailEnvelopes == {[code |-> 400, json |-> TRUE, text |-> "bad request"],
                  [code |-> 500, json |-> FALSE, text |-> "internal error"],
                  [code |-> 200, json |-> FALSE, text |-> "<html>"]}

Envelopes == {OkEnvelope} \cup FailEnvelopes
NoResponse == [code |-> 0, json |-> FALSE, text |-> ""]

\* bodies of POST /subscriptions
NoRes == [subscriptionId |-> Absent, id |-> Absent, taskId |-> Absent, task_id |-> Absent]
PostSubBodies ==
    [subscriptionId : {Absent}, id : {Absent},
     taskId : {Absent, S("t1")}, task_id : {Absent, S("t2")}]
    \cup [subscriptionId : {Absent, S(""), S("sub-9")}, id : {Absent, I(7)},
          taskId : {Absent}, task_id : {Absent}]
    \cup {[NoRes EXCEPT !.subscriptionId = S(""), !.taskId = S("t1")],
          [NoRes EXCEPT !.subscriptionId = S("sub-9"), !.taskId = S("t1")]}

\* bodies of GET /tasks/{id}
NoDict == [isdict |-> FALSE, subscriptionId |-> Absent, id |-> Absent]
NoTask ==
    [status |-> Absent, result |-> NoDict, response |-> NoDict,
     subscriptionId |-> Absent, resourceId |-> Absent, links |-> <<>>,
     errorMessage |-> Absent, message |-> Absent, details |-> Absent]

\* entries of a task's "links" array; an href is kept split at "/"
SelfLink == [rel |-> S("self"),
             href |-> <<"https:", "", "api.example", "v1", "subscriptions", "sub-1">>]
TaskLink == [rel |-> S("resource"),
             href |-> <<"https:", "", "api.example", "v1", "tasks", "t1">>]
ResourceLink == [rel |-> S("Resource"),
                 href |-> <<"https:", "", "api.example", "v1", "subscriptions", "sub-2",
                            "databases">>]

TaskBodies ==
    {[NoTask EXCEPT !.status = st] : st \in {Absent, S("processing")}}
    \cup {[NoTask EXCEPT !.status = S("completed"), !.links = ln]
            : ln \in {<<SelfLink>>, <<SelfLink, TaskLink, ResourceLink>>}}
    \cup {[NoTask EXCEPT !.status = S("completed"), !.links = <<ResourceLink>>,
                         !.result = [isdict |-> TRUE, subscriptionId |-> S(""), id |-> Absent]]}
    \cup {[NoTask EXCEPT !.status = S("completed"), !.result = r]
            : r \in {NoDict,
                     [isdict |-> TRUE, subscriptionId |-> S("sub-9"), id |-> Absent],
                     [isdict |-> TRUE, subscriptionId |-> S(""), id |-> Absent]}}
    \cup {[NoTask EXCEPT !.status = S("Done"), !.resourceId = I(7)]}
    \cup {[NoTask EXCEPT !.status = st, !.errorMessage = em, !.message = msg, !.details = dt]
            : st \in {S("FAILED"), S("processing-error")},
              em \in {Absent, S("quota exceeded")},
              msg \in {Absent, S("denied")},
              dt \in {Absent, S("see log")}}
    \cup {[NoTask EXCEPT !.status = S(st), !.errorMessage = S("")]
            : st \in {"error", "aborted", "canceled", "cancelled"}}

\* bodies of GET /subscriptions/{id}
NoSub == [status |-> Absent, state |-> Absent]
SubBodies ==
    [status : {Absent, S("pending")}, state : {Absent, S("running")}]
    \cup [status : {S("ACTIVE"), S("error")}, state : {Absent}]

\* bodies of POST /subscriptions/{id}/databases
NoDbRes == [databaseId |-> Absent, id |-> Absent, database_id |-> Absent]
DbBodies ==
    [databaseId : {Absent, S("d1")}, id : {Absent, I(7)}, database_id : {Absent, S("d3")}]
    \cup [databaseId : {S("")}, id : {Absent, I(7)}, database_id : {Absent}]

\* values of the converter's and the normaliser's variables while they have not run
NoBuilt == [databases |-> <<>>, creation_plan |-> <<>>, skipped_rows |-> 0]
NoDb == [name |-> Absent, protocol |-> Absent, dataset_size_in_gb |-> Absent,
         replication |-> Absent, throughput_measurement_by |-> Absent,
         throughput_measurement_value |-> Absent, modules |-> NoList, modulexs |-> NoList,
         support_oss_cluster_api |-> Absent]
NoNormed == [name |-> Absent, protocol |-> Absent, datasetSizeInGb |-> 0,
             replication |-> FALSE, throughputMeasurementBy |-> Absent,
             throughputMeasurementValue |-> 0, modules |-> NoList,
             supportOSSClusterApi |-> FALSE, raised |-> FALSE]

REQUIRED_NAMES == {"REDIS_CLOUD_ACCOUNT_KEY", "REDIS_CLOUD_API_KEY", "REDIS_CLOUD_ACCOUNT_ID",
                   "REDIS_CLOUD_PROVIDER", "REDIS_CLOUD_REGION"}

\* the names listed by the start-up message
MESSAGE_NAMES == REQUIRED_NAMES \cup {"REDIS_CLOUD_PAYMENT_METHOD_ID"}

Environments ==
    [set : SUBSET REQUIRED_NAMES, payment : {"unset", "nonnumeric", "numeric"}]

\* ------------------------------------------------------------- state
\* nothing converted to tfvars yet
NoTfvars == [databases |-> <<>>, creation_plans |-> <<>>]

\* the names under which clients upload their sheets
UploadNames == {"sizing.csv", "other.csv"}

\* the files the front-end keeps in app.config['UPLOAD_FOLDER']
ConvertOutputs == {"databases.json", "subscription.json", "redis_payloads.json"}
FileNames == UploadNames \cup ConvertOutputs
             \cup {"provision_payload.json", "redis_payloads_provision.json"}

\* no request is being handled and the upload folder holds none of the files
NoHandlers == <<>>
NoFiles == [f \in FileNames |-> 0]

VARIABLES
    pc,        \* position of the process
    env,       \* environment read by the module-level configuration
    tty,       \* sys.stdin.isatty()
    spec,      \* the payload read from stdin
    requests,  \* HTTP requests issued so far, in order
    res,       \* body of the POST /subscriptions response
    task_id,   \* task handle of the subscription creation
    task,      \* body of the last GET /tasks/{id} response
    sub_id,    \* the resolved subscription id
    resolved,  \* number of times a subscription id has been resolved
    sub,       \* body of the last GET /subscriptions/{id} response
    elapsed,   \* time.time() - start of the running polling loop
    db_idx,    \* position of main's loop over the databases
    db_res,    \* body of the last POST .../databases response
    db_id,     \* value returned by the last create_database call
    created,   \* positions of the databases for which create_database returned
    err,       \* the fatal error that ended the process
    complete,  \* "Provisioning complete" has been printed
    resp,      \* status line and body text of the last HTTP response
    ret,       \* value returned by _extract_subscription_id_from_task called alone
    rows,      \* rows of the sizing sheet read by re_stats_json.py
    built,     \* value returned by build_payloads
    wire,      \* databases derived from the converted payload by _dbs_from_payload
    db_in,     \* a database of the input handed to _normalize_db_from_input alone
    normed,    \* value returned by that call
    tfvars,    \* the tfvars written by csv_to_redis_tf.py
    handlers,  \* the requests the HTTP front-end is handling
    files      \* the files of the upload folder

vars == <<pc, env, tty, spec, requests, res, task_id, task, sub_id, resolved, sub,
          elapsed, db_idx, db_res, db_id, created, err, complete, resp, ret,
          rows, built, wire, db_in, normed, tfvars, handlers, files>>

Init ==
    /\ pc = "load"
    /\ env \in Environments
    /\ tty \in BOOLEAN
    /\ spec = NoSpec
    /\ requests = <<>>
    /\ res = NoRes
    /\ task_id = ""
    /\ task = NoTask
    /\ sub_id = ""
    /\ resolved = 0
    /\ sub = NoSub
    /\ elapsed = 0
    /\ db_idx = 0
    /\ db_res = NoDbRes
    /\ db_id = ""
    /\ created = <<>>
    /\ err = NoError
    /\ complete = FALSE
    /\ resp = NoResponse
    /\ ret = None
    /\ rows = <<>>
    /\ built = NoBuilt
    /\ wire = <<>>
    /\ db_in = NoDb
    /\ normed = NoNormed
    /\ tfvars = NoTfvars
    /\ handlers = NoHandlers
    /\ files = NoFiles

Request(method, path, id, dbs) == [method |-> method, path |-> path, id |-> id, dbs |-> dbs]

\* an error handler that starts the run again
Fail_Restart(e) == pc' = "main" /\ err' = e

\* the process ends with the fatal error e
Fail(e) == pc' = "failed" /\ err' = e

\* module-level configuration: int(os.getenv(...)) runs before the REQUIRED_ENV test
LoadConfigOutcome(e) ==
    IF e.payment = "unset" THEN Fatal("TypeError", "int(None) of the payment method id")
    ELSE IF e.payment = "nonnumeric" THEN Fatal("ValueError", "int(str)")
    ELSE IF e.set # REQUIRED_NAMES
         THEN [Fatal("ConfigurationError", "Missing one or more required env vars")
               EXCEPT !.names = MESSAGE_NAMES]
    ELSE NoError

LoadConfig ==
    /\ pc = "load"
    /\ LET e == LoadConfigOutcome(env)
       IN  IF e.kind = "none" THEN pc' = "main" /\ err' = err ELSE Fail(e)
    /\ UNCHANGED <<env, tty, spec, requests, res, task_id, task, sub_id, resolved, sub,
                   elapsed, db_idx, db_res, db_id, created, complete, resp, ret,
                   rows, built, wire, db_in, normed, tfvars, handlers, files>>

\* main up to the call of create_pro_subscription
Main ==
    /\ pc = "main"
    /\ IF tty
       THEN /\ Fail([Fatal("UsageError", "Pipe the JSON into stdin") EXCEPT !.exit = 2])
            /\ spec' = spec
       ELSE /\ \E sp \in SpecInputs : spec' = sp
            /\ pc' = "create_sub"
            /\ err' = err
    /\ UNCHANGED <<env, tty, requests, res, task_id, task, sub_id, resolved, sub,
                   elapsed, db_idx, db_res, db_id, created, complete, resp, ret,
                   rows, built, wire, db_in, normed, tfvars, handlers, files>>

\* post() and get(): a response that is not ok is fatal (http_error), and so is
\* an ok response whose body does not parse
HttpResult(r, op) ==
    IF ~HttpOk(r) THEN http_error(r, op)
    ELSE IF ~r.json THEN DecodeError(op)
    ELSE NoError

\* a dispatch that prefers "id" to "subscriptionId"
DirectId_IdFirst(r) == PyOr(PyGet(r.id), PyGet(r.subscriptionId))

\* sub_id = res.get("subscriptionId") or res.get("id")
DirectId(r) == PyOr(PyGet(r.subscriptionId), PyGet(r.id))

\* task_id = res.get("taskId") or res.get("task_id")
TaskHandle(r) == PyOr(PyGet(r.taskId), PyGet(r.task_id))

\* a loop that walks the list from its end
MainDbs_Reversed(sp) ==
    [k \in 1..Len(sp.databases.items) |->
        sp.databases.items[Len(sp.databases.items) + 1 - k]]

\* main's list of databases: spec.get("databases", [])
MainDbs(sp) == sp.databases.items

\* a main that prints the completion message without walking the list
EnterDbLoop_NoLoop ==
    pc' = "done" /\ complete' = TRUE /\ UNCHANGED <<db_idx, err>>

\* what main does once wait_for_subscription_active has returned, up to the
\* first create_database call: iterating over a null "databases" raises
EnterDbLoop ==
    IF spec.databases.t = "none"
    THEN Fail(Fatal("TypeError", "NoneType is not iterable")) /\ UNCHANGED <<db_idx, complete>>
    ELSE IF MainDbs(spec) = <<>>
    THEN pc' = "done" /\ complete' = TRUE /\ UNCHANGED <<db_idx, err>>
    ELSE pc' = "create_db" /\ db_idx' = 1 /\ UNCHANGED <<err, complete>>

\* create_pro_subscription up to its first poll of the task
CreateProSubscription ==
    /\ pc = "create_sub"
    /\ LET dbs == _dbs_from_payload(spec)
       IN  IF NormalizeRaises(dbs)
           THEN /\ Fail(Fatal("TypeError", "int(None)"))
                /\ UNCHANGED <<requests, res, task_id, sub_id, resolved, resp>>
           ELSE IF NoDatabases(spec)
           THEN /\ Fail(Fatal("NoDatabases", "No databases specified or derivable"))
                /\ UNCHANGED <<requests, res, task_id, sub_id, resolved, resp>>
           ELSE \E r \in Envelopes, body \in PostSubBodies :
                /\ r = OkEnvelope \/ body = NoRes
                /\ requests' = Append(requests, Request("POST", "/subscriptions", "", dbs))
                /\ resp' = r
                /\ IF HttpResult(r, "POST /subscriptions").kind # "none"
                   THEN /\ Fail(HttpResult(r, "POST /subscriptions"))
                        /\ UNCHANGED <<res, task_id, sub_id, resolved>>
                   ELSE /\ res' = body
                        /\ IF Truthy(DirectId(body))
                           THEN /\ sub_id' = Str(DirectId(body))
                                /\ resolved' = resolved + 1
                                /\ pc' = "wait_sub"
                                /\ UNCHANGED <<task_id, err>>
                           ELSE IF ~Truthy(TaskHandle(body))
                           THEN /\ Fail(Fatal("SchemaResolutionError", "no id or taskId"))
                                /\ UNCHANGED <<task_id, sub_id, resolved>>
                           ELSE /\ task_id' = Str(TaskHandle(body))
                                /\ pc' = "wait_task"
                                /\ UNCHANGED <<sub_id, resolved, err>>
    /\ elapsed' = 0
    /\ UNCHANGED <<env, tty, spec, task, sub, db_idx, db_res, db_id, created, complete, ret,
                   rows, built, wire, db_in, normed, tfvars, handlers, files>>

\* one iteration of wait_for_task; on success the rest of create_pro_subscription
PollTask ==
    /\ pc = "wait_task"
    /\ \E r \in Envelopes, body \in TaskBodies, lat \in 0..MaxLatency :
        /\ r = OkEnvelope \/ body = NoTask
        /\ requests' = Append(requests, Request("GET", "/tasks/{id}", task_id, <<>>))
        /\ resp' = r
        /\ IF HttpResult(r, "GET /tasks").kind # "none"
           THEN /\ Fail(HttpResult(r, "GET /tasks"))
                /\ UNCHANGED <<task, sub_id, resolved, elapsed>>
           ELSE /\ task' = body
                /\ LET status == TaskStatus(body)
                       outcome == TaskOutcome(status, elapsed + lat)
                       found == _extract_subscription_id_from_task(body)
                   IN  CASE outcome = "return" ->
                              IF ~Truthy(found)
                              THEN /\ Fail(Fatal("SchemaResolutionError", "no subscription id found"))
                                   /\ UNCHANGED <<sub_id, resolved, elapsed>>
                              ELSE /\ sub_id' = Str(found)
                                   /\ resolved' = resolved + 1
                                   /\ pc' = "wait_sub"
                                   /\ elapsed' = 0
                                   /\ err' = err
                         [] outcome = "failure" ->
                              /\ Fail(Fatal("AsyncOperationFailure", Str(TaskErrMsg(body))))
                              /\ UNCHANGED <<sub_id, resolved, elapsed>>
                         [] outcome = "timeout" ->
                              /\ Fail(Fatal("TimeoutError", status))
                              /\ elapsed' = elapsed + lat
                              /\ UNCHANGED <<sub_id, resolved>>
                         [] OTHER ->
                              /\ elapsed' = elapsed + lat + TaskPollS
                              /\ UNCHANGED <<pc, err, sub_id, resolved>>
    /\ UNCHANGED <<env, tty, spec, res, task_id, sub, db_idx, db_res, db_id, created, complete, ret,
                   rows, built, wire, db_in, normed, tfvars, handlers, files>>

\* one iteration of wait_for_subscription_active; on return, main up to the
\* first create_database call
PollSubscription ==
    /\ pc = "wait_sub"
    /\ \E r \in Envelopes, body \in SubBodies, lat \in 0..MaxLatency :
        /\ r = OkEnvelope \/ body = NoSub
        /\ requests' = Append(requests, Request("GET", "/subscriptions/{id}", sub_id, <<>>))
        /\ resp' = r
        /\ IF HttpResult(r, "GET /subscriptions").kind # "none"
           THEN /\ Fail(HttpResult(r, "GET /subscriptions"))
                /\ UNCHANGED <<sub, elapsed, db_idx, complete>>
           ELSE /\ sub' = body
                /\ LET status == SubStatus(body)
                       outcome == SubOutcome(status, elapsed + lat)
                   IN  CASE outcome = "return" ->
                              /\ EnterDbLoop
                              /\ elapsed' = 0
                         [] outcome = "failure" ->
                              /\ Fail(Fatal("AsyncOperationFailure", status))
                              /\ UNCHANGED <<elapsed, db_idx, complete>>
                         [] outcome = "timeout" ->
                              /\ Fail(Fatal("TimeoutError", status))
                              /\ elapsed' = elapsed + lat
                              /\ UNCHANGED <<db_idx, complete>>
                         [] OTHER ->
                              /\ elapsed' = elapsed + lat + SubPollS
                              /\ UNCHANGED <<pc, err, db_idx, complete>>
    /\ UNCHANGED <<env, tty, spec, res, task_id, task, sub_id, resolved, db_res, db_id, created, ret,
                   rows, built, wire, db_in, normed, tfvars, handlers, files>>

\* a lookup that prefers "id" to "databaseId"
DatabaseId_IdFirst(r) == PyOr(PyOr(PyGet(r.id), PyGet(r.databaseId)), PyGet(r.database_id))

\* db_id = res.get("databaseId") or res.get("id") or res.get("database_id")
DatabaseId(r) == PyOr(PyOr(PyGet(r.databaseId), PyGet(r.id)), PyGet(r.database_id))

\* one iteration of main's loop: create_database, then the loop test
CreateDatabase ==
    /\ pc = "create_db"
    /\ LET dbs == MainDbs(spec)
           payload == _normalize_db_from_input(dbs[db_idx])
       IN  IF payload.raised
           THEN /\ Fail(Fatal("TypeError", "int(None)"))
                /\ UNCHANGED <<requests, db_res, db_id, created, db_idx, complete, resp>>
           ELSE \E r \in Envelopes, body \in DbBodies :
                /\ r = OkEnvelope \/ body = NoDbRes
                /\ requests' = Append(requests,
                       Request("POST", "/subscriptions/{id}/databases", sub_id, <<payload>>))
                /\ resp' = r
                /\ IF HttpResult(r, "POST /databases").kind # "none"
                   THEN /\ Fail(HttpResult(r, "POST /databases"))
                        /\ UNCHANGED <<db_res, db_id, created, db_idx, complete>>
                   ELSE /\ db_res' = body
                        /\ IF ~Truthy(DatabaseId(body))
                           THEN /\ Fail(Fatal("SchemaResolutionError", "no database id"))
                                /\ UNCHANGED <<db_id, created, db_idx, complete>>
                           ELSE /\ db_id' = Str(DatabaseId(body))
                                /\ created' = Append(created, db_idx)
                                /\ err' = err
                                /\ IF db_idx = Len(dbs)
                                   THEN pc' = "done" /\ complete' = TRUE /\ db_idx' = db_idx
                                   ELSE pc' = pc /\ complete' = complete /\ db_idx' = db_idx + 1
    /\ UNCHANGED <<env, tty, spec, res, task_id, task, sub_id, resolved, sub, elapsed, ret,
                   rows, built, wire, db_in, normed, tfvars, handlers, files>>

Next ==
    \/ LoadConfig
    \/ Main
    \/ CreateProSubscription
    \/ PollTask
    \/ PollSubscription
    \/ CreateDatabase

Spec == Init /\ [][Next]_vars

\* the process keeps running and every request is answered
LiveSpec == Spec /\ WF_vars(Next)

\* ------------------------------------------------------------ claims
IsPostSub(q) == q.method = "POST" /\ q.path = "/subscriptions"
IsGetTask(q) == q.method = "GET" /\ q.path = "/tasks/{id}"
IsGetSub(q) == q.method = "GET" /\ q.path = "/subscriptions/{id}"
IsPostDb(q) == q.method = "POST" /\ q.path = "/subscriptions/{id}/databases"

TaskGets == SelectSeq(requests, IsGetTask)
SubGets == SelectSeq(requests, IsGetSub)
DbPosts == SelectSeq(requests, IsPostDb)

\* position of a request in the order of the workflow's steps
StepRank(q) == IF IsPostSub(q) THEN 1
               ELSE IF IsGetTask(q) THEN 2
               ELSE IF IsGetSub(q) THEN 3
               ELSE 4

ActiveEquivalent == {"active", "activated", "running", "ready"}
FailureEquivalent == {"error", "failed"}

\* the status the last poll of the subscription showed: status, else state, lower-cased
ObservedSubStatus ==
    Lower(IF Truthy(sub.status) THEN sub.status.s
          ELSE IF Truthy(sub.state) THEN sub.state.s
          ELSE "")

\* the databases of the input, as read from stdin
InputDbs == spec.databases.items

StepOrder ==
    /\ \A a, b \in 1..Len(requests) : a < b => StepRank(requests[a]) <= StepRank(requests[b])
    /\ requests # <<>> => IsPostSub(requests[1])
    /\ \A a \in 2..Len(requests) : ~IsPostSub(requests[a])
    /\ SubGets # <<>> =>
          /\ resolved = 1
          /\ sub_id # ""
          /\ \A a \in 1..Len(SubGets) : SubGets[a].id = sub_id
    /\ DbPosts # <<>> =>
          /\ SubGets # <<>>
          /\ ObservedSubStatus \in ActiveEquivalent
          /\ \A a \in 1..Len(DbPosts) : DbPosts[a].id = sub_id
    /\ pc = "done" =>
          /\ err = NoError
          /\ ObservedSubStatus \in ActiveEquivalent
          /\ Len(DbPosts) = Len(InputDbs)
          /\ created = [k \in 1..Len(InputDbs) |-> k]

\* C1: the requests of a run occur in the order POST /subscriptions, task
\* polls, subscription polls, database POSTs; a database POST is issued only
\* after the subscription was resolved and a poll showed an active-equivalent
\* status; Completed is reached only without error and with every input
\* database created; once Failed, the process stays Failed and issues no request.
C1_WorkflowOrder ==
    /\ []StepOrder
    /\ [][pc = "failed" => pc' = "failed" /\ requests' = requests]_vars

C1_Witness ==
    /\ pc = "done"
    /\ Len(TaskGets) >= 2
    /\ Len(SubGets) >= 2
    /\ Len(DbPosts) = 3

\* the databases created so far are the first ones of the input, in input order
CreatedInOrder ==
    /\ created = [k \in 1..Len(created) |-> k]
    /\ \A k \in 1..Len(DbPosts) :
          DbPosts[k].dbs = <<_normalize_db_from_input(InputDbs[k])>>
    /\ Len(created) <= Len(DbPosts)
    /\ Len(DbPosts) <= Len(created) + 1
    /\ Len(DbPosts) <= Len(InputDbs)
    /\ pc = "create_db" => Len(DbPosts) = Len(created)
    /\ Len(DbPosts) = Len(created) + 1 => pc = "failed"

\* C2: databases are created one at a time in input order; when the creation
\* of the k-th fails, databases 1..k-1 are created, the k-th was attempted
\* once, and no later database is ever attempted.
C2_SequentialHalt ==
    /\ []CreatedInOrder
    /\ [][Len(DbPosts') <= Len(DbPosts) + 1]_vars
    /\ [][Len(DbPosts) = Len(created) + 1 => requests' = requests /\ created' = created]_vars

\* the 2nd of 3 databases answered HTTP 400
C2_Witness ==
    /\ pc = "failed"
    /\ err.kind = "TransportError"
    /\ err.code = 400
    /\ Len(InputDbs) = 3
    /\ created = <<1>>
    /\ Len(DbPosts) = 2

\* a step of wait_for_subscription_active whose GET was answered with a body
SubPolled ==
    /\ pc = "wait_sub"
    /\ requests' # requests
    /\ err'.kind \notin {"TransportError", "DecodeError"}

\* C3: each polled subscription status falls in exactly one of three classes:
\* an active-equivalent status makes wait_for_subscription_active return, a
\* failure-equivalent status aborts with AsyncOperationFailure before any
\* database is created, and any other status (a missing one too) keeps the
\* loop polling (until its timeout budget is spent).
C3_SubscriptionStatusClasses ==
    [][SubPolled =>
        LET status == ObservedSubStatus'
        IN  /\ status \in ActiveEquivalent =>
                /\ pc' # "wait_sub"
                /\ err'.kind \notin {"AsyncOperationFailure", "TimeoutError"}
                /\ InputDbs # <<>> /\ spec.databases.t = "list" => pc' = "create_db"
            /\ status \in FailureEquivalent =>
                /\ pc' = "failed"
                /\ err'.kind = "AsyncOperationFailure"
                /\ err'.detail = status
                /\ DbPosts' = <<>>
            /\ status \notin ActiveEquivalent \cup FailureEquivalent =>
                \/ pc' = "wait_sub" /\ err' = NoError /\ elapsed' >= elapsed + SubPollS
                \/ pc' = "failed" /\ err'.kind = "TimeoutError"]_vars

\* GET /subscriptions/sub-9 answered {"status": "error"}
C3_Witness ==
    /\ pc = "failed"
    /\ err.kind = "AsyncOperationFailure"
    /\ sub_id = "sub-9"
    /\ sub = [status |-> S("error"), state |-> Absent]
    /\ InputDbs # <<>>
    /\ DbPosts = <<>>

\* the POST /subscriptions call was answered with a JSON body
PostAnswered ==
    /\ requests # <<>>
    /\ ~(err.kind \in {"TransportError", "DecodeError"} /\ err.op = "POST /subscriptions")

ScenarioTask ==
    [NoTask EXCEPT !.status = S("completed"),
                   !.result = [isdict |-> TRUE, subscriptionId |-> S("sub-9"), id |-> Absent]]

\* C4: create_pro_subscription resolves the id through one dispatch: a direct
\* id (subscriptionId, then id) is returned without any GET /tasks; else a task
\* handle (taskId, then task_id) is polled and the id is taken from the final
\* task; with neither the workflow fails. With {taskId: t1}, then processing,
\* then completed with result.subscriptionId = sub-9, the id is sub-9 and the
\* workflow is at activation polling.
C4_SingleDispatch ==
    PostAnswered =>
        /\ Truthy(res.subscriptionId) =>
              sub_id = Str(res.subscriptionId) /\ TaskGets = <<>>
        /\ ~Truthy(res.subscriptionId) /\ Truthy(res.id) =>
              sub_id = Str(res.id) /\ TaskGets = <<>>
        /\ ~Truthy(res.subscriptionId) /\ ~Truthy(res.id) =>
              /\ Truthy(res.taskId) => task_id = Str(res.taskId)
              /\ ~Truthy(res.taskId) /\ Truthy(res.task_id) => task_id = Str(res.task_id)
              /\ Truthy(res.taskId) \/ Truthy(res.task_id) =>
                    /\ pc = "wait_task" \/ TaskGets # <<>>
                    /\ \A a \in 1..Len(TaskGets) : TaskGets[a].id = task_id
                    /\ sub_id # "" =>
                          /\ TaskStatus(task) \in {"succeeded", "success", "completed", "done"}
                          /\ sub_id = Str(_extract_subscription_id_from_task(task))
              /\ ~Truthy(res.taskId) /\ ~Truthy(res.task_id) =>
                    /\ pc = "failed"
                    /\ err.kind = "SchemaResolutionError"
                    /\ Len(requests) = 1
        /\ res = [NoRes EXCEPT !.taskId = S("t1")] /\ task = ScenarioTask
           /\ Len(TaskGets) = 2 /\ Len(requests) = 3 =>
              sub_id = "sub-9" /\ pc = "wait_sub"

C4_Witness ==
    /\ res = [NoRes EXCEPT !.taskId = S("t1")]
    /\ task = ScenarioTask
    /\ Len(TaskGets) = 2
    /\ Len(requests) = 3
    /\ sub_id = "sub-9"
    /\ pc = "wait_sub"

TerminalSuccess == {"succeeded", "success", "completed", "done"}
TerminalFailure == {"failed", "error", "aborted", "canceled", "cancelled", "processing-error"}

\* the status the last poll of the task showed, lower-cased
ObservedTaskStatus == Lower(IF Truthy(task.status) THEN task.status.s ELSE "")

\* a step of wait_for_task whose GET was answered with a body
TaskPolled ==
    /\ pc = "wait_task"
    /\ requests' # requests
    /\ err'.kind \notin {"TransportError", "DecodeError"}

\* C5: a poll of the task that shows a non-terminal status (within the
\* timeout budget) neither returns nor changes the workflow state; the first
\* terminal-success status ends the polling; the subscription id is resolved
\* at most once and never changes once resolved.
C5_TaskPollingIdempotent ==
    /\ [][TaskPolled =>
            LET status == ObservedTaskStatus'
            IN  /\ status \notin TerminalSuccess \cup TerminalFailure =>
                    \/ /\ pc' = "wait_task"
                       /\ UNCHANGED <<sub_id, resolved, task_id, res, created, db_idx, err, spec>>
                    \/ pc' = "failed" /\ err'.kind = "TimeoutError"
                /\ status \in TerminalSuccess => pc' # "wait_task"]_vars
    /\ [](pc = "wait_task" => ObservedTaskStatus \notin TerminalSuccess \cup TerminalFailure)
    /\ [](resolved <= 1 /\ (resolved = 0 <=> sub_id = ""))
    /\ [][sub_id # "" => sub_id' = sub_id /\ resolved' = resolved]_vars

\* three polls: two pending answers, then the terminal one
C5_Witness ==
    /\ Len(TaskGets) = 3
    /\ pc = "wait_sub"
    /\ resolved = 1
    /\ Len(requests) = 4

\* what a polling loop leaves behind when it times out
TimeoutReport ==
    err.kind = "TimeoutError" =>
        /\ pc = "failed"
        /\ elapsed > TimeoutBudget
        /\ DbPosts = <<>> /\ created = <<>> /\ ~complete
        /\ IF SubGets = <<>>
           THEN /\ err.detail = ObservedTaskStatus
                /\ ObservedTaskStatus \notin TerminalSuccess \cup TerminalFailure
                /\ sub_id = "" /\ resolved = 0
           ELSE /\ err.detail = ObservedSubStatus
                /\ ObservedSubStatus \notin ActiveEquivalent \cup FailureEquivalent

\* a loop sleeps only while its budget is not spent, so its polls are bounded
PollsBounded ==
    /\ (Len(TaskGets) - 2) * TaskPollS <= TimeoutBudget
    /\ (Len(SubGets) - 2) * SubPollS <= TimeoutBudget
    /\ pc = "wait_task" => elapsed <= TimeoutBudget + TaskPollS
    /\ pc = "wait_sub" => elapsed <= TimeoutBudget + SubPollS

\* C6: both polling loops terminate: a loop whose status never becomes
\* terminal aborts with a timeout error once the elapsed time exceeds the
\* budget, reporting the last observed status and leaving no partial result,
\* and no request follows.
C6_PollingTerminates ==
    /\ []PollsBounded
    /\ []TimeoutReport
    /\ [][err.kind = "TimeoutError" => requests' = requests /\ pc' = pc]_vars
    /\ <>(pc \in {"done", "failed"})

\* the task loop timed out after its last allowed poll
C6_Witness ==
    /\ pc = "failed"
    /\ err.kind = "TimeoutError"
    /\ Len(TaskGets) >= 2
    /\ SubGets = <<>>

Is2xx(code) == 200 <= code /\ code <= 299

\* the call a request belongs to, as named in the error message
CallName(q) == IF IsPostSub(q) THEN "POST /subscriptions"
               ELSE IF IsGetTask(q) THEN "GET /tasks"
               ELSE IF IsGetSub(q) THEN "GET /subscriptions"
               ELSE "POST /databases"

StartupFailure ==
    \/ err.kind \in {"ConfigurationError", "ValueError", "UsageError"}
    \/ err.kind = "TypeError" /\ err.detail = "int(None) of the payment method id"

SubscriptionAttempted == pc \notin {"load", "main", "create_sub"} /\ ~StartupFailure

\* C8 as stated: with no subscription block in the input the workflow fails
\* and POST /subscriptions is never issued.
C8_AbsentSubscriptionFails ==
    SubscriptionAttempted /\ ~spec.subscription.present =>
        pc = "failed" /\ requests = <<>>

\* the databases list is non-empty, or else the creation plan is
Derivable ==
    \/ spec.databases.t = "list" /\ spec.databases.items # <<>>
    \/ spec.subscription.present /\ spec.subscription.creation_plan # <<>>

\* every derived database has a throughput that int() accepts
Normalisable ==
    /\ \A k \in 1..Len(spec.databases.items) :
          spec.databases.items[k].throughput_measurement_value.t # "none"
    /\ spec.databases.items = <<>> =>
          \A k \in 1..Len(spec.subscription.creation_plan) :
              spec.subscription.creation_plan[k].throughput_measurement_value.t # "none"

\* C8 (amended): the transition Idle to SubscriptionRequested is triggered by
\* an input from which a database is derivable (a non-empty databases list,
\* or else a non-empty subscription.creation_plan), with or without a
\* subscription block; when none is derivable the workflow fails and no
\* POST /subscriptions is issued.
C8_DerivableDatabasesTrigger ==
    SubscriptionAttempted =>
        /\ ~Derivable => pc = "failed" /\ err.kind = "NoDatabases" /\ requests = <<>>
        /\ Derivable /\ Normalisable => requests # <<>> /\ IsPostSub(requests[1])
        /\ requests # <<>> => Derivable

\* no subscription block, one database: the subscription is requested
C8_Witness ==
    /\ ~spec.subscription.present
    /\ Len(InputDbs) = 1
    /\ pc = "wait_task"
    /\ Len(requests) = 1

\* the settings the claim names: both keys, provider, region, payment method
MissingSettings ==
    ({"REDIS_CLOUD_ACCOUNT_KEY", "REDIS_CLOUD_API_KEY", "REDIS_CLOUD_PROVIDER",
      "REDIS_CLOUD_REGION"} \ env.set)
    \cup (IF env.payment = "unset" THEN {"REDIS_CLOUD_PAYMENT_METHOD_ID"} ELSE {})

\* C9: when any required setting is absent the process stops at start-up with
\* an error that lists the missing names, and no HTTP request is ever sent.
C9_ConfigValidatedFirst ==
    MissingSettings # {} =>
        /\ requests = <<>>
        /\ pc \in {"load", "failed"}
        /\ pc = "failed" => err.kind = "ConfigurationError" /\ MissingSettings \subseteq err.names

\* --------------------------------- _extract_subscription_id_from_task alone
ExtractLink == [rel |-> S("resource"),
                href |-> <<"https:", "", "api.example", "v1", "subscriptions", "sub-1">>]

ExtractTasks ==
    {[NoTask EXCEPT !.status = S("completed"), !.result = r, !.response = p,
                    !.subscriptionId = sid, !.resourceId = rid, !.links = ln]
        : r \in {NoDict} \cup [isdict : {TRUE}, subscriptionId : {Absent, None, S("sub-9")},
                               id : {Absent, I(7)}],
          p \in {NoDict} \cup [isdict : {TRUE}, subscriptionId : {Absent, S("sub-8")},
                               id : {Absent, S("resp-id")}],
          sid \in {Absent, I(9)},
          rid \in {Absent, None, S("res-5")},
          ln \in {<<>>, <<ExtractLink>>}}

InitExtract ==
    /\ pc = "extract"
    /\ task \in ExtractTasks
    /\ env = [set |-> REQUIRED_NAMES, payment |-> "numeric"]
    /\ tty = FALSE
    /\ spec = NoSpec
    /\ requests = <<>>
    /\ res = NoRes
    /\ task_id = ""
    /\ sub_id = ""
    /\ resolved = 0
    /\ sub = NoSub
    /\ elapsed = 0
    /\ db_idx = 0
    /\ db_res = NoDbRes
    /\ db_id = ""
    /\ created = <<>>
    /\ err = NoError
    /\ complete = FALSE
    /\ resp = NoResponse
    /\ ret = None
    /\ rows = <<>>
    /\ built = NoBuilt
    /\ wire = <<>>
    /\ db_in = NoDb
    /\ normed = NoNormed
    /\ tfvars = NoTfvars
    /\ handlers = NoHandlers
    /\ files = NoFiles

ExtractCall ==
    /\ pc = "extract"
    /\ ret' = _extract_subscription_id_from_task(task)
    /\ pc' = "extracted"
    /\ UNCHANGED <<env, tty, spec, requests, res, task_id, task, sub_id, resolved, sub,
                   elapsed, db_idx, db_res, db_id, created, err, complete, resp,
                   rows, built, wire, db_in, normed, tfvars, handlers, files>>

NextExtract == ExtractCall

SpecExtract == InitExtract /\ [][NextExtract]_vars

PriorityOrder == << <<"result", "subscriptionId">>,
                    <<"response", "subscriptionId">>,
                    <<"subscriptionId">>,
                    <<"resourceId">>,
                    <<"result", "id">>,
                    <<"response", "id">> >>

\* the positions of PriorityOrder whose path leads to a string or an integer
Matching == {k \in 1..Len(PriorityOrder) : PathValue(task, PriorityOrder[k]).t \in {"str", "int"}}

\* C10: when several of the paths result.subscriptionId,
\* response.subscriptionId, subscriptionId, resourceId, result.id, response.id
\* hold an identifier, the function returns the one at the first of them in
\* that order, as a string.
C10_FirstPathWins ==
    pc = "extracted" =>
        \A k \in Matching :
            (\A j \in Matching : k <= j) => ret = S(Str(PathValue(task, PriorityOrder[k])))

\* resourceId and result.id both hold an identifier, the paths before do not
C10_Witness ==
    /\ pc = "extracted"
    /\ Matching = {4, 5}
    /\ task.result.subscriptionId = None
    /\ ret = S("res-5")

\* ------------------------------------------------ the links fallback
\* the segment that follows the first "/subscriptions/" of an href, "" if none
HrefSegment(href) ==
    LET at == {k \in 2..(Len(href) - 1) : href[k] = "subscriptions" /\ href[k + 1] # ""}
    IN  IF at = {} THEN "" ELSE href[(CHOOSE k \in at : \A m \in at : k <= m) + 1]

\* the last task body showed a terminal-success status
TaskSucceeded == TaskGets # <<>> /\ ObservedTaskStatus \in TerminalSuccess

\* positions of the links whose href matches /subscriptions/<segment>
MatchingHrefs == {k \in 1..Len(task.links) : HrefSegment(task.links[k].href) # ""}

\* those whose rel is, in any letter case, "resource" or "subscription"
ResourceHrefs ==
    {k \in MatchingHrefs :
        task.links[k].rel.t = "str"
        /\ Lower(task.links[k].rel.s) \in {"resource", "subscription"}}

FirstOf(positions) == CHOOSE k \in positions : \A m \in positions : k <= m

\* no request to the subscription resource is made without an identifier
NeverPollsWithoutId ==
    /\ SubGets # <<>> => sub_id # ""
    /\ \A k \in 1..Len(SubGets) : SubGets[k].id = sub_id
    /\ pc \in {"wait_sub", "create_db", "done"} => sub_id # ""

\* C11 as stated: when no fixed path holds an identifier the id is that of the
\* first links entry whose href matches /subscriptions/<segment>.
C11_FirstMatchingHref ==
    /\ NeverPollsWithoutId
    /\ TaskSucceeded /\ Matching = {} /\ MatchingHrefs # {} =>
          sub_id = HrefSegment(task.links[FirstOf(MatchingHrefs)].href)

\* C11 (amended): when no fixed path holds a string or an integer, the id is
\* taken from the first links entry whose rel is resource or subscription (in
\* any letter case) and whose href matches /subscriptions/<segment>; when the
\* paths and these links give no identifier, or a path gives an empty string,
\* the workflow fails fatally after the terminal-success status and never
\* polls the subscription.
C11_LinksFallback ==
    /\ NeverPollsWithoutId
    /\ TaskSucceeded =>
          LET found == IF Matching # {}
                       THEN Str(PathValue(task, PriorityOrder[FirstOf(Matching)]))
                       ELSE IF ResourceHrefs # {}
                       THEN HrefSegment(task.links[FirstOf(ResourceHrefs)].href)
                       ELSE ""
          IN  IF found = ""
              THEN /\ pc = "failed"
                   /\ err.kind = "SchemaResolutionError"
                   /\ err.exit # 0
                   /\ sub_id = ""
                   /\ SubGets = <<>>
              ELSE sub_id = found /\ pc # "wait_task"

\* the first link has rel "self", the id comes from the later resource link
C11_Witness ==
    /\ TaskSucceeded
    /\ Matching = {}
    /\ ResourceHrefs # {}
    /\ FirstOf(MatchingHrefs) = 1
    /\ FirstOf(ResourceHrefs) = 3
    /\ sub_id = "sub-2"
    /\ pc = "wait_sub"

\* ------------------------------------------------- failure of the task
\* the first of errorMessage, message, details that is set and not empty
EmbeddedDiagnostic ==
    IF Truthy(task.errorMessage) THEN task.errorMessage.s
    ELSE IF Truthy(task.message) THEN task.message.s
    ELSE IF Truthy(task.details) THEN task.details.s
    ELSE "No additional error message provided."

\* C12: a poll of the task that shows one of failed, error, aborted, canceled,
\* cancelled, processing-error ends the workflow with a fatal error carrying
\* errorMessage, else message, else details; no subscription id is resolved
\* and no request follows.
C12_TaskFailureAborts ==
    /\ [][TaskPolled /\ ObservedTaskStatus' \in TerminalFailure =>
            /\ pc' = "failed"
            /\ err'.kind = "AsyncOperationFailure"
            /\ err'.exit # 0
            /\ err'.detail = EmbeddedDiagnostic'
            /\ sub_id' = "" /\ resolved' = 0]_vars
    /\ [][err.kind = "AsyncOperationFailure" => UNCHANGED vars]_vars
    /\ [](TaskGets # <<>> /\ ObservedTaskStatus \in TerminalFailure =>
            pc = "failed" /\ sub_id = "" /\ SubGets = <<>> /\ DbPosts = <<>>)

\* the second poll shows FAILED with message and details but no errorMessage
C12_Witness ==
    /\ pc = "failed"
    /\ err.kind = "AsyncOperationFailure"
    /\ Len(TaskGets) = 2
    /\ task.status = S("FAILED")
    /\ task.errorMessage = Absent
    /\ task.details = S("see log")
    /\ err.detail = "denied"

\* ------------------------------------------------------- no rollback
\* the resources the run has created so far
CreatedResources == <<sub_id, created>>

\* C13: no rollback or compensation is performed: the workflow only ever
\* issues GET and POST requests, the step that raises a fatal error leaves the
\* subscription and the databases created so far as they are, and after the
\* error no request is issued and the created resources do not change.
C13_NoRollback ==
    /\ [](\A k \in 1..Len(requests) : requests[k].method \in {"GET", "POST"})
    /\ [][err.kind = "none" /\ err'.kind # "none" =>
            /\ CreatedResources' = CreatedResources
            /\ \/ requests' = requests
               \/ requests' = Append(requests, requests'[Len(requests')])]_vars
    /\ [][err.kind # "none" => UNCHANGED <<requests, sub_id, created, pc, err>>]_vars

\* the second database fails with HTTP 400 after the first was created
C13_Witness ==
    /\ pc = "failed"
    /\ err.kind = "TransportError"
    /\ sub_id # ""
    /\ created = <<1>>
    /\ Len(DbPosts) = 2
    /\ requests[Len(requests)].method = "POST"

\* ---------------------------------------------------- process exit
\* the run reached Completed: subscription active, every database created
ReachedCompleted ==
    /\ pc = "done"
    /\ sub_id # ""
    /\ ObservedSubStatus \in ActiveEquivalent
    /\ created = [k \in 1..Len(InputDbs) |-> k]
    /\ Len(DbPosts) = Len(InputDbs)

\* the error carries a message, or the status code and body of the response;
\* the message of a timeout or of a failure status names the last status,
\* which may be empty
HasDiagnostic ==
    \/ err.detail # ""
    \/ err.kind \in {"TimeoutError", "AsyncOperationFailure"}
    \/ err.kind = "TransportError" /\ err.code >= 400 /\ err.body.form # "none"
    \/ err.kind = "DecodeError" /\ err.op # ""

\* C14: the completion message is printed if and only if the run reached
\* Completed; every fatal error ends the process with a non-zero exit status
\* and a diagnostic, and the completion message is never printed after it.
C14_ExitBehaviour ==
    /\ [](complete <=> ReachedCompleted)
    /\ [](pc = "done" => complete /\ err = NoError)
    /\ [](err.kind # "none" <=> pc = "failed")
    /\ [](pc = "failed" => err.exit # 0 /\ HasDiagnostic /\ ~complete)
    /\ [][pc = "failed" => ~complete']_vars
    /\ [][complete => UNCHANGED vars]_vars

\* the identifier of the last of three databases is missing from the response
C14_Witness ==
    /\ pc = "failed"
    /\ err.kind = "SchemaResolutionError"
    /\ err.exit = 1
    /\ created = <<1, 2>>
    /\ Len(DbPosts) = 3
    /\ ~complete

\* ------------------------------------------- identifier of a database
\* a response field that is set to a non-empty string or a non-zero number
FieldPresent(v) == (v.t = "str" /\ v.s # "") \/ (v.t = "int" /\ v.n # 0)

\* a step of create_database whose POST was answered with a body
DbAnswered ==
    /\ pc = "create_db"
    /\ requests' # requests
    /\ err'.kind \notin {"TransportError", "DecodeError"}

\* C15: create_database returns the first of databaseId, id, database_id that
\* the response carries (set and not empty), as a string; when the response
\* carries none of them the workflow fails fatally, and a database counts as
\* created only when an identifier was obtained.
C15_DatabaseIdOrder ==
    /\ [][DbAnswered =>
            LET r == db_res'
                first == IF FieldPresent(r.databaseId) THEN r.databaseId
                         ELSE IF FieldPresent(r.id) THEN r.id
                         ELSE r.database_id
            IN  IF FieldPresent(first)
                THEN /\ db_id' = (IF first.t = "int" THEN IntToStr(first.n) ELSE first.s)
                     /\ created' = Append(created, db_idx)
                     /\ err' = NoError
                ELSE /\ pc' = "failed"
                     /\ err'.kind = "SchemaResolutionError"
                     /\ created' = created
                     /\ db_id' = db_id]_vars
    /\ [](created # <<>> => db_id # "")
    /\ [](Len(created) <= Len(DbPosts))

\* the response carries id and database_id but no databaseId: id is returned
C15_Witness ==
    /\ db_res = [databaseId |-> Absent, id |-> I(7), database_id |-> S("d3")]
    /\ db_id = "7"
    /\ created = <<1, 2>>
    /\ Len(DbPosts) = 2

\* ------------------- the sizing-sheet converter (input/re_stats_json.py)
MaxRows == 2          \* most rows of a sizing sheet

\* cells of the sheet: an empty cell is NaN, a numeric cell is kept in
\* hundredths (2.44 is Cell(244)), a text cell is S(text)
NaN == [t |-> "nan", s |-> "", n |-> 0]
Cell(hundredths) == [t |-> "num", s |-> "", n |-> hundredths]

\* str.strip() on the texts of the model
Strip(x) == CASE x = " cacheB " -> "cacheB"
              [] x = " RediSearch" -> "RediSearch"
              [] x = " " -> ""
              [] OTHER -> x

\* pd.to_numeric(..., errors="coerce"): what is not a number becomes NaN
ToNumeric(c) == IF c.t = "num" THEN c ELSE NaN

\* astype(int) truncates towards zero
TruncHundredths(h) == IF h >= 0 THEN h \div 100 ELSE -((-h) \div 100)

\* round(prec) of a size with two decimals for --precision 1, in tenths;
\* a tie goes to the even digit
RoundPrec(h) ==
    LET q == h \div 10
        r == h % 10
    IN  IF r < 5 THEN q
        ELSE IF r > 5 THEN q + 1
        ELSE IF q % 2 = 0 THEN q ELSE q + 1

\* work["quantity"]: to_numeric, fillna(1), astype(int)
Quantity(row) ==
    IF ToNumeric(row.quantity).t = "nan" THEN 1 ELSE TruncHundredths(row.quantity.n)

\* work["throughput_ops_per_second"]: to_numeric, fillna(0), astype(int)
ThroughputOps(row) ==
    IF ToNumeric(row.throughput).t = "nan" THEN 0 ELSE TruncHundredths(row.throughput.n)

\* work["dataset_size_in_gb"], in tenths, for a row whose size is a number
SizeKey(row) == RoundPrec(row.size.n)

\* helper.str_to_bool on an empty or a text cell
str_to_bool(val) == val.t = "str" /\ Lower(Strip(val.s)) \in {"1", "true"}

\* [m.strip() for m in s.split(",") if m.strip()] on the pieces of the cell
SplitModules(pieces) ==
    SelectSeq([k \in 1..Len(pieces) |-> Strip(pieces[k])], LAMBDA m : m # "")

\* dropna on the size, then the filter dataset_size_in_gb > 0
Kept(row) == ToNumeric(row.size).t = "num" /\ SizeKey(row) > 0

\* a name that always carries the number of the instance
InstanceName_AlwaysSuffixed(row, i) == Strip(row.database_name) \o "-" \o ToString(i)

\* the name of the i-th database of a row
InstanceName(row, i) ==
    IF Quantity(row) = 1 THEN Strip(row.database_name)
    ELSE Strip(row.database_name) \o "-" \o ToString(i)

\* the database appended for the i-th instance of a row
DatabaseEntry(row, i) ==
    [name |-> S(InstanceName(row, i)),
     protocol |-> Absent,
     dataset_size_in_gb |-> Num(SizeKey(row)),
     replication |-> B(str_to_bool(row.replication)),
     throughput_measurement_by |-> S("operations-per-second"),
     throughput_measurement_value |-> I(ThroughputOps(row)),
     modules |-> L(SplitModules(row.modules)),
     modulexs |-> NoList,
     support_oss_cluster_api |-> B(str_to_bool(row.oss))]

\* the loop over wf.iterrows(): range(max(qty, 1)) databases per row
RECURSIVE ExpandRows(_)
ExpandRows(wf) ==
    IF wf = <<>> THEN <<>>
    ELSE [i \in 1..Max(Quantity(Head(wf)), 1) |-> DatabaseEntry(Head(wf), i)]
         \o ExpandRows(Tail(wf))

\* the key of groupby(["size_key", "replication", "throughput_ops_per_second"])
GroupKey(row) == <<SizeKey(row), str_to_bool(row.replication), ThroughputOps(row)>>

\* groupby sorts its keys
KeyLess(a, b) ==
    \/ a[1] < b[1]
    \/ a[1] = b[1] /\ ~a[2] /\ b[2]
    \/ a[1] = b[1] /\ a[2] = b[2] /\ a[3] < b[3]

RECURSIVE SortKeys(_)
SortKeys(keys) ==
    IF keys = {} THEN <<>>
    ELSE LET m == CHOOSE x \in keys : \A y \in keys : x = y \/ KeyLess(x, y)
         IN  <<m>> \o SortKeys(keys \ {m})

\* ["quantity"].sum() of one group
RECURSIVE SumQuantity(_, _)
SumQuantity(wf, key) ==
    IF wf = <<>> THEN 0
    ELSE (IF GroupKey(Head(wf)) = key THEN Quantity(Head(wf)) ELSE 0)
         + SumQuantity(Tail(wf), key)

PlanEntry(wf, key) ==
    [dataset_size_in_gb |-> Num(key[1]),
     replication |-> B(key[2]),
     throughput_measurement_by |-> S("operations-per-second"),
     throughput_measurement_value |-> I(key[3]),
     quantity |-> SumQuantity(wf, key)]

build_payloads(df) ==
    LET wf == SelectSeq(df, Kept)
        keys == SortKeys({GroupKey(wf[k]) : k \in 1..Len(wf)})
    IN  [databases |-> ExpandRows(wf),
         creation_plan |-> [k \in 1..Len(keys) |-> PlanEntry(wf, keys[k])],
         skipped_rows |-> Len(df) - Len(wf)]

\* the combined file written by re_stats_json.py, as create-db.py reads it
CombinedSpec(payloads) ==
    [databases |-> [t |-> "list", items |-> payloads.databases],
     subscription |-> [present |-> TRUE, creation_plan |-> payloads.creation_plan]]

\* ------------------- the tfvars converter (csv_to_redis_tf.py, main)
\* str_to_bool of csv_to_redis_tf.py on an empty or a text cell
tf_str_to_bool(val) ==
    val.t = "str" /\ Lower(Strip(val.s)) \in {"1", "true", "yes", "y", "t"}

\* a size that is rounded up to the next integer
RoundInt_Ceil(h) == (h + 99) \div 100

\* round().astype(int) of a size with two decimals; a tie goes to the even
\* integer
RoundInt(h) ==
    LET q == h \div 100
        r == h % 100
    IN  IF r < 50 THEN q
        ELSE IF r > 50 THEN q + 1
        ELSE IF q % 2 = 0 THEN q ELSE q + 1

\* wf["dataset_size_in_gb"] after round().astype(int)
TfSize(row) == RoundInt(row.size.n)

\* dropna on the size, then the filter dataset_size_in_gb > 0 on the rounded size
TfKept(row) == ToNumeric(row.size).t = "num" /\ TfSize(row) > 0

\* the value stored for the i-th instance of a row, with its key
TfEntry(row, i) ==
    [name |-> InstanceName(row, i),
     dataset_size_in_gb |-> I(TfSize(row)),
     replication |-> B(tf_str_to_bool(row.replication)),
     throughput_measurement_value |-> I(ThroughputOps(row)),
     modules |-> L(SplitModules(row.modules)),
     support_oss_cluster_api |-> B(tf_str_to_bool(row.oss))]

\* databases[name] = {...} on a dict kept in insertion order: a key that is
\* already there keeps its place and takes the new value
DictSet(d, e) ==
    IF \E k \in 1..Len(d) : d[k].name = e.name
    THEN [k \in 1..Len(d) |-> IF d[k].name = e.name THEN e ELSE d[k]]
    ELSE Append(d, e)

\* the assignments of the loop over wf.iterrows(), range(q) per row, in order
RECURSIVE TfAssignments(_)
TfAssignments(wf) ==
    IF wf = <<>> THEN <<>>
    ELSE [i \in 1..Max(Quantity(Head(wf)), 0) |-> TfEntry(Head(wf), i)]
         \o TfAssignments(Tail(wf))

RECURSIVE DictOf(_)
DictOf(entries) ==
    IF entries = <<>> THEN <<>>
    ELSE DictSet(DictOf(SubSeq(entries, 1, Len(entries) - 1)), entries[Len(entries)])

\* the key of groupby(["dataset_size_in_gb", "replication", "throughput_ops_per_second"])
TfGroupKey(row) == <<TfSize(row), tf_str_to_bool(row.replication), ThroughputOps(row)>>

RECURSIVE TfSumQuantity(_, _)
TfSumQuantity(wf, key) ==
    IF wf = <<>> THEN 0
    ELSE (IF TfGroupKey(Head(wf)) = key THEN Quantity(Head(wf)) ELSE 0)
         + TfSumQuantity(Tail(wf), key)

TfPlanEntry(wf, key) ==
    [dataset_size_in_gb |-> I(key[1]),
     quantity |-> TfSumQuantity(wf, key),
     replication |-> B(key[2]),
     throughput_measurement_by |-> S("operations-per-second"),
     throughput_measurement_value |-> I(key[3])]

\* the tfvars that main() writes for a sheet
csv_to_redis_tf_main(df) ==
    LET wf == SelectSeq(df, TfKept)
        keys == SortKeys({TfGroupKey(wf[k]) : k \in 1..Len(wf)})
    IN  [databases |-> DictOf(TfAssignments(wf)),
         creation_plans |-> [k \in 1..Len(keys) |-> TfPlanEntry(wf, keys[k])]]

\* ------------------------------------- _normalize_db_from_input alone
\* every variable of the workflow but pc
workflowVars == <<env, tty, spec, requests, res, task_id, task, sub_id, resolved, sub,
                  elapsed, db_idx, db_res, db_id, created, err, complete, resp, ret>>

\* the workflow has not started
WorkflowIdle ==
    /\ env = [set |-> REQUIRED_NAMES, payment |-> "numeric"]
    /\ tty = FALSE
    /\ spec = NoSpec
    /\ requests = <<>>
    /\ res = NoRes
    /\ task_id = ""
    /\ task = NoTask
    /\ sub_id = ""
    /\ resolved = 0
    /\ sub = NoSub
    /\ elapsed = 0
    /\ db_idx = 0
    /\ db_res = NoDbRes
    /\ db_id = ""
    /\ created = <<>>
    /\ err = NoError
    /\ complete = FALSE
    /\ resp = NoResponse
    /\ ret = None

\* databases of an input: sizes that are fractional, whole, zero, negative,
\* null, missing and strings; throughputs; modules and the alias
NormalizeInputs ==
    [name : {Absent, S("cacheA")},
     protocol : {Absent},
     dataset_size_in_gb : {Absent, None, Num(4), Num(21), Num(20), I(2), I(0), Num(-35),
                           S("2.1"), S("big")},
     replication : {Absent},
     throughput_measurement_by : {Absent},
     throughput_measurement_value : {Absent, None, I(0), I(5000)},
     modules : {NoList, NullList, L(<<>>), L(<<"RedisJSON", "RediSearch">>)},
     modulexs : {NoList, NullList, L(<<"RediSearch">>)},
     support_oss_cluster_api : {Absent}]

InitNormalize ==
    /\ pc = "normalize"
    /\ db_in \in NormalizeInputs
    /\ normed = NoNormed
    /\ tfvars = NoTfvars
    /\ handlers = NoHandlers
    /\ files = NoFiles
    /\ rows = <<>>
    /\ built = NoBuilt
    /\ wire = <<>>
    /\ WorkflowIdle

NormalizeCall ==
    /\ pc = "normalize"
    /\ normed' = _normalize_db_from_input(db_in)
    /\ pc' = "normalized"
    /\ UNCHANGED <<workflowVars, rows, built, wire, db_in, tfvars, handlers, files>>

NextNormalize == NormalizeCall

SpecNormalize == InitNormalize /\ [][NextNormalize]_vars

\* the size the payload must carry for an input size
ExpectedGb(size) ==
    IF size.t = "num"
    THEN IF size.n <= 10 THEN 1 ELSE CHOOSE k \in 1..size.n : 10 * (k - 1) < size.n /\ size.n <= 10 * k
    ELSE IF size.t = "int" THEN (IF size.n < 1 THEN 1 ELSE size.n)
    ELSE IF size = S("2.1") THEN 3
    ELSE 1

\* C16: the datasetSizeInGb of a payload is an integer >= 1: max(1, ceil(s))
\* for a numeric size s (0.4 gives 1, 2.1 gives 3, 2 gives 2; a string that
\* reads as a number counts as that number), and 1 for an absent, null or
\* non-numeric size.
C16_SizeAtLeastOne ==
    pc = "normalized" =>
        /\ normed.datasetSizeInGb \in Nat
        /\ normed.datasetSizeInGb >= 1
        /\ normed.datasetSizeInGb = ExpectedGb(db_in.dataset_size_in_gb)

\* the size 2.1 was normalised to 3
C16_Witness ==
    /\ pc = "normalized"
    /\ db_in.dataset_size_in_gb = Num(21)
    /\ ~normed.raised
    /\ normed.datasetSizeInGb = 3

\* C19: when "modules" is absent (missing or null) the payload's modules are
\* the value of "modulexs", or the empty list when that is missing too; when
\* "modules" is present its value is used and "modulexs" is ignored.
C19_ModulexsAlias ==
    pc = "normalized" =>
        IF db_in.modules.t = "list"
        THEN normed.modules = db_in.modules
        ELSE IF db_in.modulexs.t = "absent"
        THEN normed.modules = L(<<>>)
        ELSE normed.modules = db_in.modulexs

\* "modules" is an empty list and the alias is set: the empty list is sent
C19_Witness ==
    /\ pc = "normalized"
    /\ db_in.modules = L(<<>>)
    /\ db_in.modulexs = L(<<"RediSearch">>)
    /\ normed.modules = L(<<>>)

\* ----------------------------------- conversion of a sizing sheet
\* rows of a sheet: name, quantity, size, throughput, replication, OSS
\* cluster API, the pieces of the modules cell between its commas
SheetRow(name, qty, size, ops, repl, oss, mods) ==
    [database_name |-> name, quantity |-> qty, size |-> size, throughput |-> ops,
     replication |-> repl, oss |-> oss, modules |-> mods]

SheetRows ==
    {SheetRow("cacheA", Cell(200), Cell(244), Cell(500000), S("TRUE"), NaN,
              <<"RedisJSON", " RediSearch">>),
     SheetRow(" cacheB ", NaN, Cell(40), NaN, S("yes"), S("1"), <<"">>),
     SheetRow("cacheC", Cell(0), Cell(241), Cell(500000), S("true"), NaN, <<"RedisJSON">>),
     SheetRow("cacheD", Cell(-100), Cell(700), NaN, NaN, NaN, <<" ">>),
     SheetRow("cacheE", Cell(100), S("n/a"), Cell(10000), NaN, NaN, <<"">>),
     SheetRow("cacheF", Cell(100), Cell(4), Cell(10000), NaN, NaN, <<"">>),
     SheetRow("cacheA", Cell(100), Cell(244), Cell(500000), S("TRUE"), NaN, <<"">>),
     SheetRow("cacheH", Cell(250), Cell(210), S("fast"), NaN, S("TRUE"), <<"">>),
     SheetRow("cacheA", Cell(200), Cell(240), Cell(500000), S("true"), NaN, <<"">>),
     SheetRow("cacheA-1", Cell(100), Cell(700), NaN, NaN, NaN, <<"">>),
     SheetRow(" ", Cell(100), Cell(244), NaN, NaN, NaN, <<"">>)}

Sheets == UNION {[1..n -> SheetRows] : n \in 0..MaxRows}

InitConvert ==
    /\ pc = "convert"
    /\ rows \in Sheets
    /\ built = NoBuilt
    /\ wire = <<>>
    /\ db_in = NoDb
    /\ normed = NoNormed
    /\ tfvars = NoTfvars
    /\ handlers = NoHandlers
    /\ files = NoFiles
    /\ WorkflowIdle

\* re_stats_json.py: build_payloads on the sheet
BuildPayloads ==
    /\ pc = "convert"
    /\ built' = build_payloads(rows)
    /\ pc' = "built"
    /\ UNCHANGED <<workflowVars, rows, wire, db_in, normed, tfvars, handlers, files>>

\* create-db.py reads the combined file and derives its databases
DbsFromPayload ==
    /\ pc = "built"
    /\ spec' = CombinedSpec(built)
    /\ wire' = _dbs_from_payload(CombinedSpec(built))
    /\ pc' = "normalized"
    /\ UNCHANGED <<env, tty, requests, res, task_id, task, sub_id, resolved, sub, elapsed,
                   db_idx, db_res, db_id, created, err, complete, resp, ret,
                   rows, built, db_in, normed, tfvars, handlers, files>>

\* csv_to_redis_tf.py: main on the sheet
WriteTfvars ==
    /\ pc = "convert"
    /\ tfvars' = csv_to_redis_tf_main(rows)
    /\ pc' = "tfvars"
    /\ UNCHANGED <<workflowVars, rows, built, wire, db_in, normed, handlers, files>>

NextConvert ==
    \/ BuildPayloads
    \/ DbsFromPayload
    \/ WriteTfvars

SpecConvert == InitConvert /\ [][NextConvert]_vars

\* C17: a database spec without a throughput is sent with
\* throughputMeasurementValue = 100 and a set throughput is sent unchanged,
\* also for the specs the converter produces from rows that have no throughput.
C17_DefaultThroughput ==
    pc = "normalized" =>
        /\ \A k \in 1..Len(wire) :
              LET thr == built.databases[k].throughput_measurement_value
              IN  wire[k].throughputMeasurementValue = (IF thr.t = "absent" THEN 100 ELSE thr.n)
        /\ (\A k \in 1..Len(rows) : rows[k].throughput = NaN) =>
              \A k \in 1..Len(wire) : wire[k].throughputMeasurementValue = 100

\* C18: normalising the databases that build_payloads emits keeps their
\* number and order, the name, replication, the modules and their order and
\* support_oss_cluster_api of each, and sends max(1, ceil(size)) as its size.
C18_RoundTrip ==
    pc = "normalized" =>
        /\ Len(wire) = Len(built.databases)
        /\ \A k \in 1..Len(wire) :
              LET d == built.databases[k]
              IN  /\ ~wire[k].raised
                  /\ wire[k].name = d.name
                  /\ wire[k].replication = (d.replication = B(TRUE))
                  /\ wire[k].modules = d.modules
                  /\ wire[k].supportOSSClusterApi = (d.support_oss_cluster_api = B(TRUE))
                  /\ wire[k].datasetSizeInGb = ExpectedGb(d.dataset_size_in_gb)
        /\ Len(rows) = 1 /\ rows[1].quantity = Cell(200) /\ rows[1].size = Cell(244) =>
              /\ Len(wire) = 2
              /\ wire[1].name = S("cacheA-1") /\ wire[2].name = S("cacheA-2")
              /\ wire[1].datasetSizeInGb = 3
              /\ wire[1].replication
              /\ wire[2].modules = L(<<"RedisJSON", "RediSearch">>)

\* two instances of size 2.4 and one of size 0.4 went through both steps
C18_Witness ==
    /\ pc = "normalized"
    /\ Len(wire) = 3
    /\ wire[1].name = S("cacheA-1")
    /\ wire[1].datasetSizeInGb = 3
    /\ wire[2].modules = L(<<"RedisJSON", "RediSearch">>)
    /\ wire[3].name = S("cacheB")
    /\ wire[3].datasetSizeInGb = 1
    /\ wire[3].supportOSSClusterApi

\* the grouping key of an emitted database and of a plan entry
ShapeKey(e) ==
    <<e.dataset_size_in_gb.n, e.replication = B(TRUE), e.throughput_measurement_value.n>>

RECURSIVE PlanTotal(_)
PlanTotal(plan) == IF plan = <<>> THEN 0 ELSE Head(plan).quantity + PlanTotal(Tail(plan))

\* C20: every grouping key (size, replication, throughput) of the emitted
\* databases has exactly one creation-plan entry, whose quantity is the number
\* of emitted databases with that key, so the quantities sum to the number of
\* emitted databases, whatever the quantities of the rows.
C20_PlanConservation ==
    pc \in {"built", "normalized"} =>
        /\ \A k \in 1..Len(built.databases) :
              LET key == ShapeKey(built.databases[k])
                  entries == {j \in 1..Len(built.creation_plan) :
                                 ShapeKey(built.creation_plan[j]) = key}
                  instances == {i \in 1..Len(built.databases) :
                                   ShapeKey(built.databases[i]) = key}
              IN  /\ Cardinality(entries) = 1
                  /\ \A j \in entries : built.creation_plan[j].quantity = Cardinality(instances)
        /\ PlanTotal(built.creation_plan) = Len(built.databases)

\* the names of the instances of one row: X alone for a quantity of 1,
\* X-1 .. X-q for a quantity q > 1
RowNames(row) ==
    LET X == Strip(row.database_name)
        q == Quantity(row)
    IN  IF q = 1 THEN <<X>> ELSE [i \in 1..q |-> X \o "-" \o ToString(i)]

\* the names of the instances of the rows, row after row
RECURSIVE NamesInRowOrder(_)
NamesInRowOrder(wf) ==
    IF wf = <<>> THEN <<>> ELSE RowNames(Head(wf)) \o NamesInRowOrder(Tail(wf))

\* every row the converter keeps has a quantity of at least 1
QuantitiesPositive(wf) == \A k \in 1..Len(wf) : Quantity(wf[k]) >= 1

\* no name occurs twice
Distinct(names) ==
    \A i, j \in 1..Len(names) : names[i] = names[j] => i = j

\* C21: a kept row with base name X and quantity q > 1 yields exactly the
\* instances X-1 .. X-q in that order, a row with quantity 1 yields exactly X,
\* and the instances of different rows follow each other in row order: in the
\* list of re_stats_json.py always, in the map of csv_to_redis_tf.py when the
\* names do not collide.
C21_ExpansionInOrder ==
    /\ pc \in {"built", "normalized"} =>
          LET wf == SelectSeq(rows, Kept)
              names == [k \in 1..Len(built.databases) |-> built.databases[k].name.s]
          IN  /\ QuantitiesPositive(wf) => names = NamesInRowOrder(wf)
              /\ /\ Len(rows) = 2
                 /\ rows[1].database_name = " cacheB "
                 /\ rows[2].database_name = "cacheH"
                 => names = <<"cacheB", "cacheH-1", "cacheH-2">>
    /\ pc = "tfvars" =>
          LET wf == SelectSeq(rows, TfKept)
              names == [k \in 1..Len(tfvars.databases) |-> tfvars.databases[k].name]
          IN  QuantitiesPositive(wf) /\ Distinct(NamesInRowOrder(wf))
                 => names = NamesInRowOrder(wf)

\* a row of quantity 1 followed by a row of quantity 2 was expanded
C21_Witness ==
    /\ pc = "built"
    /\ Len(rows) = 2
    /\ Quantity(rows[1]) = 1 /\ Quantity(rows[2]) = 2
    /\ Len(built.databases) = 3
    /\ built.databases[1].name = S("cacheB")
    /\ built.databases[2].name = S("cacheH-1")
    /\ built.databases[3].name = S("cacheH-2")

\* C22: no two instances emitted for a sheet carry the same name, and no
\* instance is lost or duplicated by a name collision: the names of the list of
\* re_stats_json.py are pairwise distinct, and the map of csv_to_redis_tf.py
\* has one entry per instance of the expansion.
C22_UniqueNames ==
    /\ pc \in {"built", "normalized"} =>
          Distinct([k \in 1..Len(built.databases) |-> built.databases[k].name.s])
    /\ pc = "tfvars" =>
          Len(tfvars.databases) = Len(TfAssignments(SelectSeq(rows, TfKept)))

\* C23: every database the converters emit has a size of at least 1 GB and a
\* non-empty name, and so has every database derived from them for the
\* provisioning service; no creation-plan entry has a size below 1 GB.
C23_SizeAndName ==
    /\ pc \in {"built", "normalized"} =>
          /\ \A k \in 1..Len(built.databases) :
                /\ built.databases[k].name.s # ""
                /\ built.databases[k].dataset_size_in_gb.n >= 10
          /\ \A k \in 1..Len(built.creation_plan) :
                built.creation_plan[k].dataset_size_in_gb.n >= 10
    /\ pc = "normalized" =>
          \A k \in 1..Len(wire) : wire[k].name # S("") /\ wire[k].datasetSizeInGb >= 1
    /\ pc = "tfvars" =>
          \A k \in 1..Len(tfvars.databases) :
              /\ tfvars.databases[k].name # ""
              /\ tfvars.databases[k].dataset_size_in_gb.n >= 1

\* the row of scenario 1: cacheA, quantity 2, size 2.4, throughput 5000,
\* replication true
Scenario1Row ==
    SheetRow("cacheA", Cell(200), Cell(240), Cell(500000), S("true"), NaN, <<"">>)

\* the tfvars of scenario 1: cacheA-1 and cacheA-2 of size 2 with replication,
\* and one plan entry of size 2 for both
Scenario1Tfvars ==
    /\ Len(tfvars.databases) = 2
    /\ tfvars.databases[1].name = "cacheA-1"
    /\ tfvars.databases[2].name = "cacheA-2"
    /\ \A k \in 1..2 :
          /\ tfvars.databases[k].replication = B(TRUE)
          /\ tfvars.databases[k].dataset_size_in_gb = I(2)
          /\ tfvars.databases[k].dataset_size_in_gb = tfvars.creation_plans[1].dataset_size_in_gb
    /\ Len(tfvars.creation_plans) = 1
    /\ tfvars.creation_plans[1].dataset_size_in_gb = I(2)
    /\ tfvars.creation_plans[1].replication = B(TRUE)
    /\ tfvars.creation_plans[1].throughput_measurement_value = I(5000)
    /\ tfvars.creation_plans[1].quantity = 2

\* the payloads of scenario 1 with the given size, in tenths
Scenario1Payloads(size) ==
    /\ Len(built.databases) = 2
    /\ built.databases[1].name = S("cacheA-1")
    /\ built.databases[2].name = S("cacheA-2")
    /\ \A k \in 1..2 :
          /\ built.databases[k].replication = B(TRUE)
          /\ built.databases[k].dataset_size_in_gb = Num(size)
          /\ built.databases[k].dataset_size_in_gb = built.creation_plan[1].dataset_size_in_gb
    /\ Len(built.creation_plan) = 1
    /\ built.creation_plan[1].dataset_size_in_gb = Num(size)
    /\ built.creation_plan[1].replication = B(TRUE)
    /\ built.creation_plan[1].throughput_measurement_value = I(5000)
    /\ built.creation_plan[1].quantity = 2

\* C24 as stated: both converters turn the row of scenario 1 into cacheA-1 and
\* cacheA-2 with replication and size 2 and into one plan entry (size 2,
\* replication, throughput 5000, quantity 2).
C24_Scenario1SizeTwo ==
    rows = <<Scenario1Row>> =>
        /\ pc = "tfvars" => Scenario1Tfvars
        /\ pc \in {"built", "normalized"} => Scenario1Payloads(20)

\* C24: csv_to_redis_tf.py turns the row of scenario 1 into cacheA-1 and
\* cacheA-2 with replication and size 2 and one plan entry (size 2,
\* replication, throughput 5000, quantity 2); re_stats_json.py yields the same
\* instances and entry with the size 2.4, which the workflow sends as 3; in
\* both, the size of each database is the size of its plan entry.
C24_Scenario1 ==
    rows = <<Scenario1Row>> =>
        /\ pc = "tfvars" => Scenario1Tfvars
        /\ pc \in {"built", "normalized"} => Scenario1Payloads(24)
        /\ pc = "normalized" =>
              /\ Len(wire) = 2
              /\ \A k \in 1..2 : wire[k].datasetSizeInGb = 3 /\ wire[k].replication

\* scenario 1 went through csv_to_redis_tf.py
C24_Witness ==
    /\ pc = "tfvars"
    /\ rows = <<Scenario1Row>>
    /\ Len(tfvars.databases) = 2
    /\ tfvars.databases[2].name = "cacheA-2"
    /\ tfvars.databases[2].dataset_size_in_gb = I(2)
    /\ tfvars.creation_plans[1].quantity = 2

\* the k-th database of the input is carried by the POST /subscriptions payload
SubmittedInline(k) ==
    \E j \in 1..Len(requests) :
        /\ IsPostSub(requests[j])
        /\ \E i \in 1..Len(requests[j].dbs) :
               requests[j].dbs[i] = _normalize_db_from_input(InputDbs[k])

\* the k-th database of the input is the payload of a POST .../databases
SubmittedSeparately(k) ==
    \E j \in 1..Len(requests) :
        /\ IsPostDb(requests[j])
        /\ requests[j].dbs = <<_normalize_db_from_input(InputDbs[k])>>

\* C25: in a run that reaches Completed every database of the input is
\* submitted for creation exactly once: either inline in the POST
\* /subscriptions payload or through POST /subscriptions/{id}/databases, never
\* both.
C25_SubmittedOnce ==
    complete =>
        \A k \in 1..Len(InputDbs) :
            /\ SubmittedInline(k) \/ SubmittedSeparately(k)
            /\ ~(SubmittedInline(k) /\ SubmittedSeparately(k))

\* a loop is left only by an iteration that made its GET
LoopLeftByPoll ==
    /\ pc = "wait_task" /\ pc' # "wait_task" => Len(TaskGets') = Len(TaskGets) + 1
    /\ pc = "wait_sub" /\ pc' # "wait_sub" => Len(SubGets') = Len(SubGets) + 1

\* a poll of the task made after the budget had elapsed
LateTaskPoll == TaskPolled /\ elapsed > TimeoutBudget

\* a poll of the subscription made after the budget had elapsed
LateSubPoll == SubPolled /\ elapsed > TimeoutBudget

\* C26: in both polling loops the timeout is tested after the status of the
\* poll has been classified: a loop is left only by an iteration that made its
\* GET; a terminal status seen on a poll made after the budget has elapsed is
\* honoured (success or active returns, failure is reported as a failure); a
\* timeout is reported only on a poll whose status is not terminal.
C26_TimeoutAfterClassification ==
    /\ [][LoopLeftByPoll]_vars
    /\ [][LateTaskPoll =>
            LET status == ObservedTaskStatus'
            IN  /\ status \in TerminalSuccess =>
                    /\ err'.kind # "TimeoutError"
                    /\ pc' = "wait_sub" \/ err'.kind = "SchemaResolutionError"
                /\ status \in TerminalFailure => err'.kind = "AsyncOperationFailure"
                /\ status \notin TerminalSuccess \cup TerminalFailure =>
                    err'.kind = "TimeoutError"]_vars
    /\ [][LateSubPoll =>
            LET status == ObservedSubStatus'
            IN  /\ status \in ActiveEquivalent =>
                    /\ err'.kind # "TimeoutError"
                    /\ pc' # "wait_sub"
                /\ status \in FailureEquivalent => err'.kind = "AsyncOperationFailure"
                /\ status \notin ActiveEquivalent \cup FailureEquivalent =>
                    err'.kind = "TimeoutError"]_vars
    /\ [](err.kind = "TimeoutError" =>
            /\ TaskGets # <<>> \/ SubGets # <<>>
            /\ IF SubGets = <<>>
               THEN ObservedTaskStatus \notin TerminalSuccess \cup TerminalFailure
               ELSE ObservedSubStatus \notin ActiveEquivalent \cup FailureEquivalent)

\* the task failed on a poll made after the budget had elapsed, and the
\* failure was reported
C26_Witness ==
    /\ pc = "failed"
    /\ err.kind = "AsyncOperationFailure"
    /\ SubGets = <<>>
    /\ Len(TaskGets) = 3
    /\ elapsed > TimeoutBudget
    /\ ObservedTaskStatus \in TerminalFailure

\* the input lists no database (the key is missing, null or an empty list)
\* and has a creation plan
PlanOnly == SpecDbsOrEmpty(spec) = <<>> /\ SpecPlan(spec) # <<>>

\* the input has neither a database nor a creation-plan entry
NothingToCreate == SpecDbsOrEmpty(spec) = <<>> /\ SpecPlan(spec) = <<>>

\* the payload of POST /subscriptions has one database per plan entry, named
\* redis-db-1 .. redis-db-m in plan order, with the entry's settings
OnePerPlanEntry ==
    LET dbs == requests[1].dbs
        plan == SpecPlan(spec)
    IN  /\ IsPostSub(requests[1])
        /\ Len(dbs) = Len(plan)
        /\ \A k \in 1..Len(plan) :
              /\ dbs[k].name = S("redis-db-" \o ToString(k))
              /\ dbs[k].replication = (plan[k].replication = B(TRUE))
              /\ dbs[k].datasetSizeInGb = ExpectedGb(plan[k].dataset_size_in_gb)
              /\ dbs[k].throughputMeasurementValue = plan[k].throughput_measurement_value.n
              /\ dbs[k].modules = L(<<>>)

\* C27: when the input lists no database but has a creation plan, the POST
\* /subscriptions payload has exactly one synthesised database per plan entry,
\* named redis-db-1 .. redis-db-m in plan order whatever the quantity of the
\* entry, and no POST /subscriptions/{id}/databases is ever made; when the
\* input has neither, the workflow fails before any HTTP call.
C27_PlanFallback ==
    /\ [](PlanOnly /\ requests # <<>> => OnePerPlanEntry /\ DbPosts = <<>>)
    /\ [](NothingToCreate => requests = <<>> /\ ~complete)
    /\ [][pc = "create_sub" /\ NothingToCreate =>
            pc' = "failed" /\ err'.kind = "NoDatabases" /\ requests' = <<>>]_vars

\* a plan of two entries of quantity 2 gave two databases and the run
\* completed without a database call
C27_Witness ==
    /\ PlanOnly
    /\ Len(SpecPlan(spec)) = 2
    /\ SpecPlan(spec)[1].quantity = 2
    /\ complete
    /\ Len(requests[1].dbs) = 2
    /\ requests[1].dbs[1].name = S("redis-db-1")
    /\ requests[1].dbs[2].name = S("redis-db-2")
    /\ DbPosts = <<>>

\* ------------------------------ the HTTP front-end (rest-api/app.py)
MaxRequests == 2      \* requests handled at the same time

\* a request as it arrives: the endpoint, the name of the uploaded file, the
\* output_type of a conversion; got is the request whose payload or sheet the
\* first subprocess read, data the request whose result was read afterwards
Handler(kind, name, out) ==
    [kind |-> kind, name |-> name, output_type |-> out,
     pc |-> "start", got |-> 0, data |-> 0, status |-> 0]

HandlerInputs ==
    {Handler("provision", "", "")}
    \cup {Handler("convert", n, o) : n \in UploadNames, o \in {"databases", "combined"}}
    \cup {Handler("convert_and_provision", n, "") : n \in UploadNames}

\* the file convert_to_json reads for an output_type
OutputFile(o) == CASE o = "databases" -> "databases.json"
                   [] o = "subscription" -> "subscription.json"
                   [] OTHER -> "redis_payloads.json"

\* the files the conversion subprocess of a request writes
ConversionOutputs(h) ==
    IF handlers[h].kind = "convert" THEN ConvertOutputs
    ELSE {"redis_payloads_provision.json"}

InitApp ==
    /\ pc = "serve"
    /\ handlers \in [1..MaxRequests -> HandlerInputs]
    /\ files = NoFiles
    /\ rows = <<>>
    /\ built = NoBuilt
    /\ wire = <<>>
    /\ db_in = NoDb
    /\ normed = NoNormed
    /\ tfvars = NoTfvars
    /\ WorkflowIdle

\* the handler of request h moves on
Advance(h, to, got, data, failed) ==
    handlers' = [handlers EXCEPT ![h] =
                    [@ EXCEPT !.pc = to, !.got = got, !.data = data,
                              !.status = IF failed THEN 500
                                         ELSE IF to = "done" /\ @ = 0 THEN 200 ELSE @]]

\* os.remove of the files of fs that exist
Remove(fs) == files' = [f \in FileNames |-> IF f \in fs THEN 0 ELSE files[f]]

ServerIdle == UNCHANGED <<pc, workflowVars, rows, built, wire, db_in, normed, tfvars>>

\* provision_redis: json.dump of the payload into provision_payload.json
WritePayload ==
    \E h \in 1..MaxRequests :
        /\ handlers[h].kind = "provision" /\ handlers[h].pc = "start"
        /\ files' = [files EXCEPT !["provision_payload.json"] = h]
        /\ Advance(h, "run", 0, 0, FALSE)
        /\ ServerIdle

\* provision_redis: open the file and run create-db.py with it as stdin
RunProvision ==
    \E h \in 1..MaxRequests :
        /\ handlers[h].kind = "provision" /\ handlers[h].pc = "run"
        /\ IF files["provision_payload.json"] = 0
           THEN Advance(h, "cleanup", 0, 0, TRUE)
           ELSE Advance(h, "cleanup", files["provision_payload.json"], 0, FALSE)
        /\ UNCHANGED files
        /\ ServerIdle

\* provision_redis: the finally block, then the response
CleanupPayload ==
    \E h \in 1..MaxRequests :
        /\ handlers[h].kind = "provision" /\ handlers[h].pc = "cleanup"
        /\ Remove({"provision_payload.json"})
        /\ Advance(h, "done", handlers[h].got, 0, FALSE)
        /\ ServerIdle

\* convert_to_json, convert_and_provision: file.save of the upload
SaveUpload ==
    \E h \in 1..MaxRequests :
        /\ handlers[h].kind \in {"convert", "convert_and_provision"}
        /\ handlers[h].pc = "start"
        /\ files' = [files EXCEPT ![handlers[h].name] = h]
        /\ Advance(h, "convert", 0, 0, FALSE)
        /\ ServerIdle

\* convert_to_json, convert_and_provision: re_stats_json.py reads the upload
\* and writes its outputs; without the upload it exits with an error
RunConversion ==
    \E h \in 1..MaxRequests :
        /\ handlers[h].kind \in {"convert", "convert_and_provision"}
        /\ handlers[h].pc = "convert"
        /\ LET sheet == files[handlers[h].name]
           IN  IF sheet = 0
               THEN Advance(h, "remove_input", 0, 0, TRUE) /\ UNCHANGED files
               ELSE /\ files' = [f \in FileNames |->
                                    IF f \in ConversionOutputs(h) THEN sheet ELSE files[f]]
                    /\ Advance(h, IF handlers[h].kind = "convert" THEN "read" ELSE "provision",
                               sheet, 0, FALSE)
        /\ ServerIdle

\* convert_to_json: json.load of the requested output
ReadOutput ==
    \E h \in 1..MaxRequests :
        /\ handlers[h].kind = "convert" /\ handlers[h].pc = "read"
        /\ LET out == files[OutputFile(handlers[h].output_type)]
           IN  IF out = 0
               THEN Advance(h, "remove_input", handlers[h].got, 0, TRUE)
               ELSE Advance(h, "remove_outputs", handlers[h].got, out, FALSE)
        /\ UNCHANGED files
        /\ ServerIdle

\* convert_to_json: the three outputs are removed
RemoveOutputs ==
    \E h \in 1..MaxRequests :
        /\ handlers[h].kind = "convert" /\ handlers[h].pc = "remove_outputs"
        /\ Remove(ConvertOutputs)
        /\ Advance(h, "remove_input", handlers[h].got, handlers[h].data, FALSE)
        /\ ServerIdle

\* convert_and_provision: create-db.py runs with the combined file as stdin
RunConvertedProvision ==
    \E h \in 1..MaxRequests :
        /\ handlers[h].kind = "convert_and_provision" /\ handlers[h].pc = "provision"
        /\ LET out == files["redis_payloads_provision.json"]
           IN  IF out = 0
               THEN Advance(h, "remove_input", handlers[h].got, 0, TRUE)
               ELSE Advance(h, "remove_combined", handlers[h].got, out, FALSE)
        /\ UNCHANGED files
        /\ ServerIdle

\* convert_and_provision: the combined file is removed
RemoveCombined ==
    \E h \in 1..MaxRequests :
        /\ handlers[h].kind = "convert_and_provision" /\ handlers[h].pc = "remove_combined"
        /\ Remove({"redis_payloads_provision.json"})
        /\ Advance(h, "remove_input", handlers[h].got, handlers[h].data, FALSE)
        /\ ServerIdle

\* convert_to_json, convert_and_provision: the finally block, then the response
RemoveUpload ==
    \E h \in 1..MaxRequests :
        /\ handlers[h].kind \in {"convert", "convert_and_provision"}
        /\ handlers[h].pc = "remove_input"
        /\ Remove({handlers[h].name})
        /\ Advance(h, "done", handlers[h].got, handlers[h].data, FALSE)
        /\ ServerIdle

NextApp ==
    \/ WritePayload
    \/ RunProvision
    \/ CleanupPayload
    \/ SaveUpload
    \/ RunConversion
    \/ ReadOutput
    \/ RemoveOutputs
    \/ RunConvertedProvision
    \/ RemoveCombined
    \/ RemoveUpload

SpecApp == InitApp /\ [][NextApp]_vars

\* the file the handler of request h has written and is about to read
Awaited(h) ==
    CASE handlers[h].pc = "run" -> {"provision_payload.json"}
      [] handlers[h].pc = "convert" -> {handlers[h].name}
      [] handlers[h].pc = "read" -> {OutputFile(handlers[h].output_type)}
      [] handlers[h].pc = "provision" -> {"redis_payloads_provision.json"}
      [] OTHER -> {}

\* C28: requests handled at the same time do not interfere: the subprocess of
\* each request reads the payload or sheet this request wrote, each request
\* reads back the result of its own conversion, and the file a request has
\* written is still there, with the content of this request, until the request
\* has read it; no request fails for a missing file.
C28_NoInterference ==
    \A h \in 1..MaxRequests :
        /\ handlers[h].got \in {0, h}
        /\ handlers[h].data \in {0, h}
        /\ handlers[h].status # 500
        /\ \A f \in Awaited(h) : files[f] = h

====
